---- MODULE Spec2Model ----
(***************************************************************************)
(* Discovery and browsing engine of mop (UPnP/DLNA media browser).         *)
(*                                                                         *)
(*   Spec     one discovery run behind a blocking API: the worker of       *)
(*            upnp::start_discovery under upnp::discover_plex_servers, or  *)
(*            DiscoveryManager::run_discovery under discover_upnp_devices  *)
(*   SpecApp  the App's discovery handlers (start_discovery,               *)
(*            check_discovery_updates, refresh_servers) over the workers   *)
(*            they spawn                                                   *)
(*   SpecNav  the App's navigation handlers over the Path Index, each      *)
(*            Browse answered by the server's listing or by a failure      *)
(*   SpecBrowse   the same handlers with the Browse call a step of its     *)
(*            own (posted, returned)                                       *)
(*   SpecSession  discovery and navigation handlers together, on one       *)
(*            network                                                      *)
(*   SpecSoap one Browse POST: browse_upnp_content_directory_with_id on    *)
(*            the responses a server can give                              *)
(*   SpecScan one discovery run of upnp::start_discovery with scan tasks   *)
(*            that may panic                                               *)
(*   SpecSsdp one Multicast Probe: SsdpDiscovery::new and discover_devices *)
(*            on the sockets and datagrams it can meet                     *)
(*   SpecDescriptor   parse_content_directory_url on one device            *)
(*            description                                                  *)
(*   SpecProbe    scan_single_endpoint on one endpoint, by the HTTP        *)
(*            answers of its host                                          *)
(*   SpecListen   the listen loop of discover_devices against the clock,   *)
(*            with weak fairness of the loop's steps                       *)
(*                                                                         *)
(* URLs are tuples: a location is <<host, port, path>>, a base URL is      *)
(* <<host, port>> (the scheme is "http" throughout; the host is the last   *)
(* octet of the address on the local /24 network).                         *)
(***************************************************************************)
EXTENDS Integers, Sequences, FiniteSets, TLC

VARIABLES
    ssdpNet,            \* what rupnp::discover yields on this network
    scanNet,            \* what the scanned endpoints answer on this network
    run,                \* the worker threads spawned by upnp::start_discovery
    chan,               \* the mpsc channel of each worker
    dps,                \* the caller inside upnp::discover_plex_servers
    mgrNet,             \* what the DiscoveryManager's collaborators answer
    mgr,                \* the worker thread of DiscoveryManager::start_discovery
    dud,                \* the caller inside discovery_manager::discover_upnp_devices
    servers,            \* App.servers
    is_discovering,     \* App.is_discovering
    discovery_receiver, \* App.discovery_receiver (0 = None, else the run it reads)
    discovery_errors,   \* App.discovery_errors
    last_error,         \* App.last_error (<<>> = None, else the joined messages)
    state,              \* App.state
    selected_server,    \* App.selected_server (<<>> = None, <<i>> = Some(i))
    current_directory,  \* App.current_directory
    directory_contents, \* App.directory_contents
    selected_item,      \* App.selected_item (<<>> = None, <<i>> = Some(i))
    container_id_map,   \* App.container_id_map, the Path Index
    tree,               \* the content directory each server serves
    soap_response,      \* the HTTP response to the latest Browse POST
    browse_result,      \* what browse_upnp_content_directory_with_id returned for it
    in_flight,          \* the paths of the Browse calls posted and not yet answered
    sock,               \* what the UDP socket of the Multicast Probe does
    probe,              \* one SsdpDiscovery::new and discover_devices call
    description,        \* a device description and the URL it was fetched from
    content_dir_url,    \* what parse_content_directory_url returned for it
    endpoint,           \* a scanned endpoint and what its host answers over HTTP
    scanned             \* what scan_single_endpoint requested and returned for it

vars == <<ssdpNet, scanNet, run, chan, dps, mgrNet, mgr, dud, servers, is_discovering,
          discovery_receiver, discovery_errors, last_error, state, selected_server,
          current_directory, directory_contents, selected_item, container_id_map, tree,
          soap_response, browse_result, in_flight, sock, probe, description,
          content_dir_url, endpoint, scanned>>

netVars == <<ssdpNet, scanNet, mgrNet, tree, sock, description, endpoint>>
probeVars == <<probe, content_dir_url, scanned>>
mgrVars == <<mgr, dud>>
soapVars == <<soap_response, browse_result, in_flight>>
navVars == <<state, selected_server, current_directory, directory_contents,
             selected_item, container_id_map>>
appVars == <<servers, is_discovering, discovery_receiver, discovery_errors, last_error,
             navVars>>

-----------------------------------------------------------------------------
(* Bounds *)

\* worker threads one behaviour may spawn
MaxRuns == 2
\* devices the SSDP stream yields in one run
MaxSsdp == 2
\* network interfaces the enumeration finds
MaxIfaces == 1

Runs == 1..MaxRuns

\* ssdp_discovery stops after this many devices
SsdpDeviceLimit == 20

\* the prefix of promising_ips and of media_ports that is scanned
PromisingIps == <<21>>
MediaPorts == <<32469, 32400>>

DlnaPort == 32469
PlexPort == 32400
DescPath == "/DeviceDescription.xml"

None == "none"

NoError == <<>>

\* the deepest path the navigation enters
MaxDepth == 2

\* the container id of the root of every content directory
RootId == "0"

-----------------------------------------------------------------------------
(* Sequences *)

RECURSIVE SeqsUpTo(_, _)
SeqsUpTo(S, n) ==
    IF n = 0 THEN {<<>>}
    ELSE LET shorter == SeqsUpTo(S, n - 1)
         IN  shorter \cup {Append(s, x) : s \in {t \in shorter : Len(t) = n - 1}, x \in S}

Range(s) == {s[i] : i \in 1..Len(s)}

Locations(s) == {s[i].location : i \in 1..Len(s)}

NoDupLocation(s) ==
    \A i, j \in 1..Len(s) : i # j => s[i].location # s[j].location

-----------------------------------------------------------------------------
(* Devices *)

\* fn extract_base_url: scheme://host:port of a URL
extract_base_url(url) == <<url[1], url[2]>>

\* what rupnp yields for one SSDP answer: the description URL, whether the
\* friendly name or device type mentions plex, and whether the fetched
\* description names a ContentDirectory service
SsdpAnswers ==
    { [url |-> <<21, DlnaPort, DescPath>>, plex |-> TRUE,  cd |-> TRUE],
      [url |-> <<21, DlnaPort, DescPath>>, plex |-> FALSE, cd |-> TRUE],
      [url |-> <<21, 8200, "/rootDesc.xml">>, plex |-> FALSE, cd |-> FALSE] }

\* ssdp_discovery, the UpnpDevice built for one stream item
SsdpDevice(a) ==
    [name |-> "ssdp",
     location |-> a.url,
     base_url |-> IF a.plex THEN <<a.url[1], PlexPort>> ELSE extract_base_url(a.url),
     device_client |-> "device_type",
     content_directory_url |-> IF a.cd THEN "control" ELSE None]

\* the (ip, port) pairs in the order the scan tasks are created
Endpoints ==
    [t \in 1..(Len(PromisingIps) * Len(MediaPorts)) |->
        <<PromisingIps[((t - 1) \div Len(MediaPorts)) + 1],
          MediaPorts[((t - 1) % Len(MediaPorts)) + 1]>>]

TaskIds == DOMAIN Endpoints

\* what one endpoint can answer: nothing usable, a hit, or (port 32469) a
\* description that names a ContentDirectory service
Outcomes(t) ==
    IF Endpoints[t][2] = DlnaPort THEN {"miss", "hit", "hitcd"} ELSE {"miss", "hit"}

\* scan_single_endpoint: Some(device) (a one-element sequence) or None (empty)
scan_single_endpoint(ip, port, outcome) ==
    IF outcome = "miss" THEN <<>>
    ELSE IF port = DlnaPort
    THEN << [name |-> "dlna",
             location |-> <<ip, port, DescPath>>,
             base_url |-> <<ip, port>>,
             device_client |-> "Plex DLNA",
             content_directory_url |-> IF outcome = "hitcd" THEN "control" ELSE None] >>
    ELSE << [name |-> "server",
             location |-> <<ip, port, "">>,
             base_url |-> <<ip, port>>,
             device_client |-> "DirectScan",
             content_directory_url |-> None] >>

-----------------------------------------------------------------------------
(* Messages *)

Msg(type) == [type |-> type, devices |-> <<>>]
DeviceFound(d) == [type |-> "DeviceFound", devices |-> <<d>>]
AllComplete(ds) == [type |-> "AllComplete", devices |-> ds]

DeviceFoundAll(ds) == [i \in 1..Len(ds) |-> DeviceFound(ds[i])]

CanSendRendezvous(r) == chan[r].alive /\ chan[r].q = <<>>

\* Sender::send on the unbounded mpsc channel: queued while the receiver
\* lives, discarded (Err, ignored by .ok()) once it is dropped; never blocks
CanSend(r) == TRUE

Send(c, msgs) == IF c.alive THEN [c EXCEPT !.q = c.q \o msgs] ELSE c

-----------------------------------------------------------------------------
(* The worker thread of upnp::start_discovery *)

NoRun ==
    [pc |-> "none", ssdp |-> "start", sidx |-> 0, ssdpDevs |-> <<>>,
     scan |-> "start", tasks |-> [t \in TaskIds |-> "pending"], scanDevs |-> <<>>,
     devices |-> <<>>, log |-> <<>>]

NoChan == [q |-> <<>>, alive |-> FALSE]

\* the worker's sends: the channel and the record of what the run emitted
Emit(r, w, msgs) ==
    /\ CanSend(r)
    /\ chan' = [chan EXCEPT ![r] = Send(chan[r], msgs)]
    /\ run' = [run EXCEPT ![r] = [w EXCEPT !.log = w.log \o msgs]]

\* thread body: send Started, then block_on(discover_with_rupnp)
WorkerStarted(r) ==
    /\ run[r].pc = "spawned"
    /\ Emit(r, [run[r] EXCEPT !.pc = "probing"], <<Msg("Started")>>)
    /\ UNCHANGED <<netVars, probeVars, soapVars, dps, mgrVars, appVars>>

\* ssdp_discovery: rupnp::discover returns a stream or an error
SsdpDiscover(r) ==
    /\ run[r].pc = "probing" /\ run[r].ssdp = "start"
    /\ run' = [run EXCEPT ![r].ssdp = IF ssdpNet.ok THEN "stream" ELSE "done"]
    /\ UNCHANGED <<netVars, probeVars, soapVars, chan, dps, mgrVars, appVars>>

\* ssdp_discovery: one device from the stream
SsdpNextDevice(r) ==
    /\ run[r].pc = "probing" /\ run[r].ssdp = "stream"
    /\ run[r].sidx < Len(ssdpNet.stream)
    /\ LET w == run[r]
           d == SsdpDevice(ssdpNet.stream[w.sidx + 1])
           n == Len(w.ssdpDevs) + 1
       IN  Emit(r, [w EXCEPT !.sidx = w.sidx + 1,
                             !.ssdpDevs = Append(w.ssdpDevs, d),
                             !.ssdp = IF n >= SsdpDeviceLimit THEN "done" ELSE "stream"],
                <<DeviceFound(d)>>)
    /\ UNCHANGED <<netVars, probeVars, soapVars, dps, mgrVars, appVars>>

\* ssdp_discovery: the stream ends
SsdpEnd(r) ==
    /\ run[r].pc = "probing" /\ run[r].ssdp = "stream"
    /\ run[r].sidx = Len(ssdpNet.stream)
    /\ run' = [run EXCEPT ![r].ssdp = "done"]
    /\ UNCHANGED <<netVars, probeVars, soapVars, chan, dps, mgrVars, appVars>>

\* targeted_port_scan_parallel: no local network, or one task per endpoint
ScanStart(r) ==
    /\ run[r].pc = "probing" /\ run[r].scan = "start"
    /\ run' = [run EXCEPT ![r].scan = IF scanNet.local THEN "wait" ELSE "done"]
    /\ UNCHANGED <<netVars, probeVars, soapVars, chan, dps, mgrVars, appVars>>

\* one spawned scan task resolves
ScanTask(r, t) ==
    /\ run[r].pc = "probing" /\ run[r].scan = "wait"
    /\ run[r].tasks[t] = "pending"
    /\ run' = [run EXCEPT ![r].tasks[t] = "resolved"]
    /\ UNCHANGED <<netVars, probeVars, soapVars, chan, dps, mgrVars, appVars>>

\* what join_all yields for one task: Ok(Some(device)), Ok(None), or Err of
\* a task that panicked; the last two are the empty sequence
TaskResult(t) ==
    IF scanNet.out[t] = "panic" THEN <<>>
    ELSE scan_single_endpoint(Endpoints[t][1], Endpoints[t][2], scanNet.out[t])

\* the hits of the tasks in task order, the first of each location kept
RECURSIVE ScanHits(_, _)
ScanHits(t, acc) ==
    IF t > Len(Endpoints) THEN acc
    ELSE LET hit == TaskResult(t)
         IN  ScanHits(t + 1,
                 IF hit # <<>> /\ hit[1].location \notin Locations(acc)
                 THEN acc \o hit ELSE acc)

\* join_all(tasks).await returns: every task has resolved
\* (before it, a wait that returns at once)
join_first(r) == TRUE
join_all(r) == \A t \in TaskIds : run[r].tasks[t] = "resolved"

\* targeted_port_scan_parallel after join_all: collect, announce, return
ScanCollect(r) ==
    /\ run[r].pc = "probing" /\ run[r].scan = "wait"
    /\ join_all(r)
    /\ LET hits == ScanHits(1, <<>>)
       IN  Emit(r, [run[r] EXCEPT !.scan = "done", !.scanDevs = hits],
                DeviceFoundAll(hits))
    /\ UNCHANGED <<netVars, probeVars, soapVars, dps, mgrVars, appVars>>

\* discover_with_rupnp: the SSDP devices, one per location
RECURSIVE MergeSsdpDevices(_, _)
MergeSsdpDevices(ds, acc) ==
    IF ds = <<>> THEN acc
    ELSE MergeSsdpDevices(Tail(ds),
             IF Head(ds).location \notin Locations(acc)
             THEN Append(acc, Head(ds)) ELSE acc)

\* discover_with_rupnp: whether a scanned device is already in the list
ScanDeviceKnown(devices, d) ==
    \E i \in 1..Len(devices) :
        devices[i].location = d.location /\ devices[i].base_url = d.base_url

\* discover_with_rupnp: the scanned devices not yet in the list
RECURSIVE MergeScanDevices(_, _, _)
MergeScanDevices(ds, acc, added) ==
    IF ds = <<>> THEN <<acc, added>>
    ELSE IF ScanDeviceKnown(acc, Head(ds))
         THEN MergeScanDevices(Tail(ds), acc, added)
         ELSE MergeScanDevices(Tail(ds), Append(acc, Head(ds)), Append(added, Head(ds)))

JoinedEither(w) == w.ssdp = "done" \/ w.scan = "done"

\* tokio::join! returns once both probes have returned
Joined(w) == w.ssdp = "done" /\ w.scan = "done"

\* discover_with_rupnp after the join: the SSDP devices, Phase1, Phase2
CollectSsdp(r) ==
    /\ run[r].pc = "probing" /\ Joined(run[r])
    /\ Emit(r, [run[r] EXCEPT !.pc = "collect",
                              !.devices = MergeSsdpDevices(run[r].ssdpDevs, <<>>)],
            <<Msg("Phase1Complete"), Msg("Phase2Complete")>>)
    /\ UNCHANGED <<netVars, probeVars, soapVars, dps, mgrVars, appVars>>

\* discover_with_rupnp: the scanned devices, announced again as they are added
CollectScan(r) ==
    /\ run[r].pc = "collect"
    /\ LET m == MergeScanDevices(run[r].scanDevs, run[r].devices, <<>>)
       IN  Emit(r, [run[r] EXCEPT !.pc = "finish", !.devices = m[1]],
                DeviceFoundAll(m[2]))
    /\ UNCHANGED <<netVars, probeVars, soapVars, dps, mgrVars, appVars>>

FinishMessagesUnlessEmpty(devices) ==
    IF devices = <<>> THEN <<Msg("Phase3Complete")>>
    ELSE <<Msg("Phase3Complete"), AllComplete(devices)>>

\* discover_with_rupnp: the last two sends
FinishMessages(devices) == <<Msg("Phase3Complete"), AllComplete(devices)>>

\* discover_with_rupnp: Phase3, AllComplete; the thread ends
Finish(r) ==
    /\ run[r].pc = "finish"
    /\ Emit(r, [run[r] EXCEPT !.pc = "done"], FinishMessages(run[r].devices))
    /\ UNCHANGED <<netVars, probeVars, soapVars, dps, mgrVars, appVars>>

Worker(r) ==
    \/ WorkerStarted(r)
    \/ SsdpDiscover(r)
    \/ SsdpNextDevice(r)
    \/ SsdpEnd(r)
    \/ ScanStart(r)
    \/ \E t \in TaskIds : ScanTask(r, t)
    \/ ScanCollect(r)
    \/ CollectSsdp(r)
    \/ CollectScan(r)
    \/ Finish(r)

\* upnp::start_discovery: a fresh channel and a worker thread on it
Spawned(r) ==
    /\ run' = [run EXCEPT ![r].pc = "spawned"]
    /\ chan' = [chan EXCEPT ![r] = [q |-> <<>>, alive |-> TRUE]]

FreeRuns == {r \in Runs : run[r].pc = "none"}

-----------------------------------------------------------------------------
(* upnp::discover_plex_servers, the blocking caller *)

DpsIdle == [pc |-> "idle", devices |-> <<>>, errors |-> <<>>, result |-> <<>>]

DpsCall ==
    /\ dps.pc = "idle" /\ dud.pc = "idle"
    /\ Spawned(1)
    /\ dps' = [dps EXCEPT !.pc = "loop"]
    /\ UNCHANGED <<netVars, probeVars, soapVars, mgrVars, appVars>>

\* one try_recv that returns a message
DpsRecv ==
    /\ dps.pc = "loop"
    /\ chan[1].q # <<>>
    /\ LET m == Head(chan[1].q)
       IN  IF m.type = "AllComplete"
           THEN /\ dps' = [dps EXCEPT !.pc = "returned", !.result = m.devices]
                /\ chan' = [chan EXCEPT ![1] = NoChan]
           ELSE /\ dps' = IF m.type = "DeviceFound"
                          THEN [dps EXCEPT !.devices = dps.devices \o m.devices]
                          ELSE IF m.type = "Error"
                          THEN [dps EXCEPT !.errors = Append(dps.errors, "error")]
                          ELSE dps
                /\ chan' = [chan EXCEPT ![1].q = Tail(chan[1].q)]
    /\ UNCHANGED <<netVars, probeVars, soapVars, run, mgrVars, appVars>>

\* the 10 s deadline passes: return what was previewed, dropping the receiver
DpsTimeout ==
    /\ dps.pc = "loop"
    /\ dps' = [dps EXCEPT !.pc = "returned", !.result = dps.devices,
                          !.errors = IF dps.devices = <<>> /\ dps.errors = <<>>
                                     THEN <<"Discovery timed out">> ELSE dps.errors]
    /\ chan' = [chan EXCEPT ![1] = NoChan]
    /\ UNCHANGED <<netVars, probeVars, soapVars, run, mgrVars, appVars>>

-----------------------------------------------------------------------------
(* DiscoveryManager (discovery_manager.rs) *)

\* the prefix of promising_ips and of media_ports that discover_via_port_scan scans
MgrPromisingIps == <<1>>
MgrMediaPorts == <<32400, 8096>>

MgrEndpoints ==
    [t \in 1..(Len(MgrPromisingIps) * Len(MgrMediaPorts)) |->
        <<MgrPromisingIps[((t - 1) \div Len(MgrMediaPorts)) + 1],
          MgrMediaPorts[((t - 1) % Len(MgrMediaPorts)) + 1]>>]

MgrTaskIds == DOMAIN MgrEndpoints

\* upnp_ssdp::Device records that SsdpDiscovery::discover_devices can return
MgrSsdpUniverse ==
    { [name |-> "ssdp", location |-> <<1, 32400, "">>, base_url |-> <<1, 32400>>,
       manufacturer |-> "server"],
      [name |-> "ssdp", location |-> <<1, 8200, "/rootDesc.xml">>, base_url |-> <<1, 8200>>,
       manufacturer |-> "server"] }

\* DiscoveryManager::scan_endpoint: Some(device) or None
scan_endpoint(ip, port, outcome) ==
    IF outcome = "hit"
    THEN << [name |-> "server", location |-> <<ip, port, "">>, base_url |-> <<ip, port>>,
             manufacturer |-> "Port Scan"] >>
    ELSE <<>>

\* DiscoveryManager::find_content_directory_service
find_content_directory_service(d) ==
    <<d.location[1], d.location[2], "/ContentDirectory/control">>

\* DiscoveryManager::convert_to_upnp_device
convert_to_upnp_device(d) ==
    [name |-> d.name,
     location |-> d.location,
     base_url |-> d.base_url,
     device_client |-> d.manufacturer,
     content_directory_url |-> find_content_directory_service(d)]

ConvertAll(ds) == [i \in 1..Len(ds) |-> convert_to_upnp_device(ds[i])]

MMsg(type, info) == [type |-> type, devices |-> <<>>, info |-> info]
MDeviceFound(d) == [type |-> "DeviceFound", devices |-> <<d>>, info |-> None]
MAllComplete(ds) == [type |-> "AllComplete", devices |-> ds, info |-> None]

MgrNone ==
    [pc |-> "none", ssdpDevs |-> <<>>, scanDevs |-> <<>>, log |-> <<>>,
     q |-> <<>>, alive |-> FALSE]

\* sender.send(..).ok() in run_discovery
MgrEmit(w, msgs) ==
    mgr' = [w EXCEPT !.log = w.log \o msgs,
                     !.q = IF w.alive THEN w.q \o msgs ELSE w.q]

PermissionMessageAsError(p) ==
    IF p = "Granted" THEN MMsg("PermissionGranted", None)
    ELSE IF p = "Denied" THEN MMsg("Error", "permission denied")
    ELSE MMsg("Error", "permission unknown")

\* run_discovery, step 1: the message for the permission state
PermissionMessage(p) ==
    IF p = "Granted" THEN MMsg("PermissionGranted", None)
    ELSE IF p = "Denied" THEN MMsg("PermissionDenied", "permission denied")
    ELSE MMsg("Error", "permission unknown")

\* run_discovery: Started, PermissionCheckStarted, check_local_network_permission
MgrPermission ==
    /\ mgr.pc = "spawned"
    /\ MgrEmit([mgr EXCEPT !.pc = "interfaces"],
               <<MMsg("Started", None), MMsg("PermissionCheckStarted", None),
                 PermissionMessage(mgrNet.perm)>>)
    /\ UNCHANGED <<netVars, probeVars, soapVars, run, chan, dps, dud, appVars>>

\* run_discovery, step 2: enumerate_network_interfaces
MgrInterfaces ==
    /\ mgr.pc = "interfaces"
    /\ MgrEmit([mgr EXCEPT !.pc = "ssdp"],
               IF mgrNet.ifaces < 0
               THEN <<MMsg("Error", "enumeration failed")>>
               ELSE [i \in 1..mgrNet.ifaces |-> MMsg("InterfaceFound", None)])
    /\ UNCHANGED <<netVars, probeVars, soapVars, run, chan, dps, dud, appVars>>

\* run_discovery, step 3: discover_via_ssdp when permitted, then SsdpComplete
MgrSsdp ==
    /\ mgr.pc = "ssdp"
    /\ LET tried == mgrNet.perm = "Granted"
           ok == tried /\ mgrNet.ssdp.err = None
           devs == IF ok THEN mgrNet.ssdp.devs ELSE <<>>
       IN  MgrEmit([mgr EXCEPT !.pc = "scan", !.ssdpDevs = devs],
                   (IF ok THEN [i \in 1..Len(devs) |-> MDeviceFound(convert_to_upnp_device(devs[i]))]
                    ELSE IF tried THEN <<MMsg("Error", "ssdp failed")>>
                    ELSE <<>>)
                   \o <<MMsg("SsdpComplete", Len(devs))>>)
    /\ UNCHANGED <<netVars, probeVars, soapVars, run, chan, dps, dud, appVars>>

\* discover_via_port_scan: the hits in scan order, or nothing without an interface
RECURSIVE discover_via_port_scan(_)
discover_via_port_scan(t) ==
    IF ~mgrNet.primary \/ t > Len(MgrEndpoints) THEN <<>>
    ELSE scan_endpoint(MgrEndpoints[t][1], MgrEndpoints[t][2], mgrNet.out[t])
         \o discover_via_port_scan(t + 1)

\* run_discovery, step 4: PortScanStarted, the scan, PortScanComplete
MgrPortScan ==
    /\ mgr.pc = "scan"
    /\ LET devs == discover_via_port_scan(1)
       IN  MgrEmit([mgr EXCEPT !.pc = "combine", !.scanDevs = devs],
                   <<MMsg("PortScanStarted", None), MMsg("PortScanComplete", Len(devs))>>)
    /\ UNCHANGED <<netVars, probeVars, soapVars, run, chan, dps, dud, appVars>>

\* run_discovery, step 5: the scanned devices whose location is new
RECURSIVE Combine(_, _)
Combine(all, ds) ==
    IF ds = <<>> THEN all
    ELSE Combine(IF Head(ds).location \in Locations(all) THEN all
                 ELSE Append(all, Head(ds)),
                 Tail(ds))

\* run_discovery, step 5: combine, convert, AllComplete; the thread ends
MgrComplete ==
    /\ mgr.pc = "combine"
    /\ MgrEmit([mgr EXCEPT !.pc = "done"],
               <<MAllComplete(ConvertAll(Combine(mgr.ssdpDevs, mgr.scanDevs)))>>)
    /\ UNCHANGED <<netVars, probeVars, soapVars, run, chan, dps, dud, appVars>>

Manager ==
    \/ MgrPermission
    \/ MgrInterfaces
    \/ MgrSsdp
    \/ MgrPortScan
    \/ MgrComplete

\* discover_upnp_devices: DiscoveryManager::start_discovery, then the receive loop
DudCall ==
    /\ dud.pc = "idle" /\ dps.pc = "idle"
    /\ mgr' = [mgr EXCEPT !.pc = "spawned", !.alive = TRUE]
    /\ dud' = [dud EXCEPT !.pc = "loop"]
    /\ UNCHANGED <<netVars, probeVars, soapVars, run, chan, dps, appVars>>

\* one try_recv that returns a message
DudRecv ==
    /\ dud.pc = "loop"
    /\ mgr.q # <<>>
    /\ LET m == Head(mgr.q)
       IN  IF m.type = "AllComplete"
           THEN /\ dud' = [dud EXCEPT !.pc = "returned", !.result = m.devices]
                /\ mgr' = [mgr EXCEPT !.q = <<>>, !.alive = FALSE]
           ELSE /\ dud' = IF m.type = "DeviceFound"
                          THEN [dud EXCEPT !.devices = dud.devices \o m.devices]
                          ELSE IF m.type \in {"Error", "PermissionDenied"}
                          THEN [dud EXCEPT !.errors = Append(dud.errors, m.info)]
                          ELSE dud
                /\ mgr' = [mgr EXCEPT !.q = Tail(mgr.q)]
    /\ UNCHANGED <<netVars, probeVars, soapVars, run, chan, dps, appVars>>

\* the 15 s deadline passes
DudTimeout ==
    /\ dud.pc = "loop"
    /\ dud' = [dud EXCEPT !.pc = "returned", !.result = dud.devices,
                          !.errors = IF dud.devices = <<>> /\ dud.errors = <<>>
                                     THEN <<"Discovery timed out">> ELSE dud.errors]
    /\ mgr' = [mgr EXCEPT !.q = <<>>, !.alive = FALSE]
    /\ UNCHANGED <<netVars, probeVars, soapVars, run, chan, dps, appVars>>

-----------------------------------------------------------------------------
(* App: the discovery handlers *)

\* (a merge that pushes every device it is given)
PushAll(list, ds) == list \o ds

\* (a merge that lets the latest record of a location take the place of the
\* one stored)
RECURSIVE PushLatest(_, _)
PushLatest(list, ds) ==
    IF ds = <<>> THEN list
    ELSE PushLatest(IF Head(ds).location \in Locations(list)
                    THEN [i \in 1..Len(list) |->
                             IF list[i].location = Head(ds).location THEN Head(ds) ELSE list[i]]
                    ELSE Append(list, Head(ds)),
                    Tail(ds))

\* the App's dedup on DeviceFound and AllComplete: push unless the location is known
RECURSIVE PushNew(_, _)
PushNew(list, ds) ==
    IF ds = <<>> THEN list
    ELSE PushNew(IF Head(ds).location \in Locations(list) THEN list
                 ELSE Append(list, Head(ds)),
                 Tail(ds))

\* (a handler whose AllComplete arm leaves is_discovering as it is)
HandleMessageFlagKept(st, m) ==
    IF m.type = "Started" THEN <<st[1], TRUE, <<>>, st[4], st[5]>>
    ELSE IF m.type = "DeviceFound" THEN <<PushNew(st[1], m.devices), st[2], st[3], st[4], st[5]>>
    ELSE IF m.type = "AllComplete"
    THEN <<PushNew(st[1], m.devices), st[2], st[3], NoError, TRUE>>
    ELSE st

\* check_discovery_updates, the match on one message;
\* st = <<servers, is_discovering, discovery_errors, last_error, should_clear_receiver>>
HandleMessage(st, m) ==
    IF m.type = "Started" THEN <<st[1], TRUE, <<>>, st[4], st[5]>>
    ELSE IF m.type = "DeviceFound" THEN <<PushNew(st[1], m.devices), st[2], st[3], st[4], st[5]>>
    ELSE IF m.type = "AllComplete"
    THEN LET all == PushNew(st[1], m.devices)
         IN  <<all, FALSE, st[3],
               IF all = <<>> THEN <<"No UPnP devices found">> ELSE NoError, TRUE>>
    ELSE IF m.type = "Error" THEN <<st[1], st[2], Append(st[3], "error"), <<"error">>, st[5]>>
    ELSE st

RECURSIVE HandleAll(_, _)
HandleAll(st, q) ==
    IF q = <<>> THEN st ELSE HandleAll(HandleMessage(st, Head(q)), Tail(q))

\* App::start_discovery
AppStartDiscovery ==
    /\ IF discovery_receiver # 0
       THEN UNCHANGED <<run, chan, servers, is_discovering, discovery_receiver,
                        discovery_errors, last_error>>
       ELSE /\ FreeRuns # {}
            /\ LET r == CHOOSE x \in FreeRuns : \A y \in FreeRuns : x <= y
               IN  /\ Spawned(r)
                   /\ discovery_receiver' = r
            /\ is_discovering' = TRUE
            /\ UNCHANGED <<servers, discovery_errors, last_error>>
    /\ UNCHANGED <<netVars, probeVars, soapVars, dps, mgrVars, navVars>>

\* App::check_discovery_updates: drain the channel, then clear the receiver
\* if AllComplete was among the messages
AppCheckDiscoveryUpdates ==
    /\ IF discovery_receiver = 0
       THEN UNCHANGED <<chan, servers, is_discovering, discovery_receiver,
                        discovery_errors, last_error>>
       ELSE LET r == discovery_receiver
                st == HandleAll(<<servers, is_discovering, discovery_errors,
                                  last_error, FALSE>>, chan[r].q)
            IN  /\ servers' = st[1]
                /\ is_discovering' = st[2]
                /\ discovery_errors' = st[3]
                /\ last_error' = st[4]
                /\ discovery_receiver' = IF st[5] THEN 0 ELSE r
                /\ chan' = [chan EXCEPT ![r] = IF st[5] THEN NoChan
                                               ELSE [q |-> <<>>, alive |-> TRUE]]
    /\ UNCHANGED <<netVars, probeVars, soapVars, run, dps, mgrVars, navVars>>

\* App::refresh_servers: clear, drop the receiver, start_discovery
AppRefreshServers ==
    /\ FreeRuns # {}
    /\ LET r == CHOOSE x \in FreeRuns : \A y \in FreeRuns : x <= y
       IN  /\ run' = [run EXCEPT ![r].pc = "spawned"]
           /\ chan' = [c \in Runs |->
                          IF c = r THEN [q |-> <<>>, alive |-> TRUE]
                          ELSE IF c = discovery_receiver THEN NoChan
                          ELSE chan[c]]
           /\ discovery_receiver' = r
    /\ servers' = <<>>
    /\ discovery_errors' = <<>>
    /\ last_error' = NoError
    /\ is_discovering' = TRUE
    /\ UNCHANGED <<netVars, probeVars, soapVars, dps, mgrVars, navVars>>

-----------------------------------------------------------------------------
(* XML as quick_xml reads it: a document is the sequence of events the      *)
(* Reader yields before Eof. A text event carries the unescaped string s,   *)
(* whether unescaping fails (an undefined entity), and, for the text of a   *)
(* SOAP Result element, the events of the document it is the escaped form   *)
(* of.                                                                      *)

NoAttrs == <<>>

StartEv(name, attrs) ==
    [ev |-> "Start", name |-> name, attrs |-> attrs, s |-> "", bad |-> FALSE, didl |-> <<>>]
EndEv(name) ==
    [ev |-> "End", name |-> name, attrs |-> NoAttrs, s |-> "", bad |-> FALSE, didl |-> <<>>]
EmptyEv(name, attrs) ==
    [ev |-> "Empty", name |-> name, attrs |-> attrs, s |-> "", bad |-> FALSE, didl |-> <<>>]
TextEv(s) ==
    [ev |-> "Text", name |-> "", attrs |-> NoAttrs, s |-> s, bad |-> FALSE, didl |-> <<>>]
\* a text with an entity reference that unescape() rejects
BadTextEv(s) ==
    [ev |-> "Text", name |-> "", attrs |-> NoAttrs, s |-> s, bad |-> TRUE, didl |-> <<>>]
\* the text of <Result>: the escaped form of the document didl
EscapedEv(didl) ==
    [ev |-> "Text", name |-> "", attrs |-> NoAttrs, s |-> "didl", bad |-> FALSE, didl |-> didl]
\* the place where the Reader returns Err (a syntax error)
SyntaxError ==
    [ev |-> "Err", name |-> "", attrs |-> NoAttrs, s |-> "", bad |-> FALSE, didl |-> <<>>]

\* BytesText::unescape().unwrap_or_default(): the string, or "" when it fails
unescape_or_default(e) == IF e.bad THEN "" ELSE e.s

\* get_attribute_value: Some(value) (a one-element sequence) or None (empty)
get_attribute_value(e, attr_name) ==
    IF attr_name \in DOMAIN e.attrs THEN <<e.attrs[attr_name]>> ELSE <<>>

Digits == <<"0", "1", "2", "3", "4", "5", "6", "7", "8", "9">>

DigitValue(c) == (CHOOSE i \in 1..10 : Digits[i] = c) - 1

\* str::parse::<u64>() on a string given as its characters (values stay far
\* below 2^64 here): Some(n) or None
RECURSIVE ParseDigits(_, _)
ParseDigits(cs, acc) ==
    IF cs = <<>> THEN <<acc>>
    ELSE IF Head(cs) \in Range(Digits)
         THEN ParseDigits(Tail(cs), acc * 10 + DigitValue(Head(cs)))
         ELSE <<>>

parse_u64(cs) ==
    IF cs = <<>> THEN <<>>
    ELSE IF Head(cs) = "+" THEN (IF Tail(cs) = <<>> THEN <<>> ELSE ParseDigits(Tail(cs), 0))
    ELSE ParseDigits(cs, 0)

\* protocolInfo.split(':').nth(2)
ProtocolFormat(fields) == IF Len(fields) >= 3 THEN <<fields[3]>> ELSE <<>>

\* Option::and_then
AndThen(opt, F(_)) == IF opt = <<>> THEN <<>> ELSE F(opt[1])

-----------------------------------------------------------------------------
(* extract_didl_from_soap and parse_didl_response *)

\* Result: Ok(value), or Err with its message (and the HTTP status it quotes)
Ok(v) == [ok |-> TRUE, value |-> v, error |-> "", status |-> <<>>]
Err(msg) == [ok |-> FALSE, value |-> <<>>, error |-> msg, status |-> <<>>]

\* extract_didl_from_soap: the first text event inside a Result element
RECURSIVE ExtractLoop(_, _)
ExtractLoop(events, in_result) ==
    IF events = <<>> THEN Err("No Result element found in SOAP response")
    ELSE LET e == Head(events)
         IN  IF e.ev = "Err" THEN Err("xml error")
             ELSE IF e.ev = "Start"
             THEN ExtractLoop(Tail(events), in_result \/ e.name = "Result")
             ELSE IF e.ev = "Text"
             THEN IF in_result
                  THEN Ok(IF e.bad THEN <<>> ELSE e.didl)
                  ELSE ExtractLoop(Tail(events), in_result)
             ELSE IF e.ev = "End"
             THEN ExtractLoop(Tail(events), in_result /\ e.name # "Result")
             ELSE ExtractLoop(Tail(events), in_result)

extract_didl_from_soap(soap_xml) == ExtractLoop(soap_xml, FALSE)

UpnpItem(id, is_container) ==
    [id |-> id, title |-> "", is_container |-> is_container, resource_url |-> <<>>,
     size |-> <<>>, duration |-> <<>>, format |-> <<>>]

\* the locals of parse_didl_response before its loop
ParserStart ==
    [items |-> <<>>, container_mappings |-> <<>>, current_item |-> <<>>,
     in_title |-> FALSE, in_resource |-> FALSE, current_title |-> ""]

TitleKeptAtContainerStart(p) == p.current_title

\* current_title.clear() when a container starts
TitleAtContainerStart(p) == ""

\* parse_didl_response: the arm for Event::Start
OnStart(p, e) ==
    IF e.name = "container"
    THEN [p EXCEPT !.current_item =
                       <<UpnpItem(IF get_attribute_value(e, "id") = <<>> THEN ""
                                  ELSE get_attribute_value(e, "id")[1], TRUE)>>,
                   !.current_title = TitleAtContainerStart(p)]
    ELSE IF e.name = "item"
    THEN [p EXCEPT !.current_item =
                       <<UpnpItem(IF get_attribute_value(e, "id") = <<>> THEN ""
                                  ELSE get_attribute_value(e, "id")[1], FALSE)>>]
    ELSE IF e.name = "dc:title" THEN [p EXCEPT !.in_title = TRUE]
    ELSE IF e.name = "res"
    THEN IF p.current_item = <<>> THEN [p EXCEPT !.in_resource = TRUE]
         ELSE [p EXCEPT !.in_resource = TRUE,
                        !.current_item =
                            <<[p.current_item[1] EXCEPT
                                 !.size = AndThen(get_attribute_value(e, "size"), parse_u64),
                                 !.duration = get_attribute_value(e, "duration"),
                                 !.format = AndThen(get_attribute_value(e, "protocolInfo"),
                                                    ProtocolFormat)]>>]
    ELSE p

\* parse_didl_response: the arm for Event::Text
OnText(p, e) ==
    IF p.in_title
    THEN [p EXCEPT !.current_title = unescape_or_default(e),
                   !.current_item = IF p.current_item = <<>> THEN <<>>
                                    ELSE <<[p.current_item[1] EXCEPT
                                              !.title = unescape_or_default(e)]>>]
    ELSE IF p.in_resource /\ p.current_item # <<>>
    THEN [p EXCEPT !.current_item =
                       <<[p.current_item[1] EXCEPT
                            !.resource_url = <<unescape_or_default(e)>>]>>]
    ELSE p

\* parse_didl_response: the arm for Event::End
OnEnd(p, e) ==
    IF e.name = "container"
    THEN IF p.current_item = <<>> THEN p
         ELSE [p EXCEPT !.container_mappings =
                            IF p.current_title # ""
                            THEN Append(p.container_mappings,
                                        <<p.current_title, p.current_item[1].id>>)
                            ELSE p.container_mappings,
                        !.items = Append(p.items, p.current_item[1]),
                        !.current_item = <<>>]
    ELSE IF e.name = "item"
    THEN IF p.current_item = <<>> THEN p
         ELSE [p EXCEPT !.items = Append(p.items, p.current_item[1]),
                        !.current_item = <<>>]
    ELSE IF e.name = "dc:title" THEN [p EXCEPT !.in_title = FALSE]
    ELSE IF e.name = "res" THEN [p EXCEPT !.in_resource = FALSE]
    ELSE p

SyntaxErrorKeepsParsed(p) == Ok(<<p.items, p.container_mappings>>)

\* parse_didl_response: Err(e) => return Err(Box::new(e))
SyntaxErrorResult(p) == Err("xml error")

\* parse_didl_response: the loop over the events of the DIDL-Lite document
RECURSIVE ParseLoop(_, _)
ParseLoop(events, p) ==
    IF events = <<>> THEN Ok(<<p.items, p.container_mappings>>)
    ELSE LET e == Head(events)
         IN  IF e.ev = "Err" THEN SyntaxErrorResult(p)
             ELSE ParseLoop(Tail(events),
                            IF e.ev = "Start" THEN OnStart(p, e)
                            ELSE IF e.ev = "Text" THEN OnText(p, e)
                            ELSE IF e.ev = "End" THEN OnEnd(p, e)
                            ELSE p)

\* parse_didl_response: Ok(<<items, container_mappings>>) or Err
parse_didl_response(xml) ==
    LET didl_xml == extract_didl_from_soap(xml)
    IN  IF ~didl_xml.ok THEN didl_xml ELSE ParseLoop(didl_xml.value, ParserStart)

-----------------------------------------------------------------------------
(* browse_upnp_content_directory_with_id, from the response on *)

FaultMarkers == {"soap:Fault", "SOAP-ENV:Fault"}

\* str::contains on the response text: the marker is in the text when an
\* element bears that name or a character-data run is that string
Contains(events, marker) ==
    \E i \in 1..Len(events) :
        \/ events[i].name = marker
        \/ events[i].ev = "Text" /\ events[i].s = marker
        \/ \E j \in 1..Len(events[i].didl) :
              \/ events[i].didl[j].name = marker
              \/ events[i].didl[j].ev = "Text" /\ events[i].didl[j].s = marker

StatusAlwaysSuccess(status) == TRUE

\* StatusCode::is_success
is_success(status) == status \div 100 = 2

HasNoSoapFault(response_text) == FALSE

\* the check for SOAP faults
HasSoapFault(response_text) ==
    Contains(response_text, "soap:Fault") \/ Contains(response_text, "SOAP-ENV:Fault")

\* browse_upnp_content_directory_with_id once the POST has been answered;
\* resp.body is <<>> when reading the body fails, else <<the document>>
browse_upnp_content_directory_with_id(resp) ==
    IF ~is_success(resp.status)
    THEN [Err("UPnP SOAP request failed with status") EXCEPT !.status = <<resp.status>>]
    ELSE IF resp.body = <<>> THEN Err("error decoding response body")
    ELSE IF HasSoapFault(resp.body[1]) THEN Err("UPnP SOAP fault in response")
    ELSE parse_didl_response(resp.body[1])

-----------------------------------------------------------------------------
(* The responses a ContentDirectory service can give *)

\* entries of one DIDL-Lite document
MaxEntries == 2

Title(t) == <<StartEv("dc:title", NoAttrs), TextEv(t), EndEv("dc:title")>>
EmptyTitle == <<StartEv("dc:title", NoAttrs), EndEv("dc:title")>>
UpnpClass(c) == <<StartEv("upnp:class", NoAttrs), TextEv(c), EndEv("upnp:class")>>

\* an element of a DIDL-Lite document: title and the members of res are
\* options (<<>> absent); closed elements are written <container .../>
Element(kind, id, title, res, closed) ==
    [kind |-> kind, id |-> id, title |-> title, res |-> res, closed |-> closed]

Res(size, duration, closed) == [size |-> size, duration |-> duration, closed |-> closed]

ResAttrs(r) ==
    [k \in {"protocolInfo"} \cup (IF r.size = <<>> THEN {} ELSE {"size"})
                            \cup (IF r.duration = <<>> THEN {} ELSE {"duration"}) |->
        IF k = "size" THEN r.size[1]
        ELSE IF k = "duration" THEN r.duration[1]
        ELSE <<"http-get", "*", "video/mp4", "*">>]

ResEvents(r) ==
    IF r.closed THEN <<EmptyEv("res", ResAttrs(r))>>
    ELSE <<StartEv("res", ResAttrs(r)), TextEv("url"), EndEv("res")>>

RECURSIVE Flatten(_)
Flatten(ss) == IF ss = <<>> THEN <<>> ELSE Head(ss) \o Flatten(Tail(ss))

\* the events quick_xml yields for one element
ElementEvents(el) ==
    IF el.closed THEN <<EmptyEv(el.kind, "id" :> el.id)>>
    ELSE <<StartEv(el.kind, "id" :> el.id)>>
         \o (IF el.title = <<>> THEN <<>>
             ELSE IF el.title[1] = "" THEN EmptyTitle ELSE Title(el.title[1]))
         \o UpnpClass(IF el.kind = "container" THEN "object.container" ELSE "object.item")
         \o Flatten([i \in 1..Len(el.res) |-> ResEvents(el.res[i])])
         \o <<EndEv(el.kind)>>

DidlLite(elements) ==
    <<StartEv("DIDL-Lite", NoAttrs)>>
    \o Flatten([i \in 1..Len(elements) |-> ElementEvents(elements[i])])
    \o <<EndEv("DIDL-Lite")>>

Size123 == <<"1", "2", "3">>

DidlElements ==
    { Element("container", "1", <<"A">>, <<>>, FALSE),
      Element("container", "2", <<"">>, <<>>, FALSE),
      Element("container", "3", <<>>, <<>>, FALSE),
      Element("container", "4", <<>>, <<>>, TRUE),
      Element("item", "9", <<"f">>, <<Res(<<Size123>>, <<"0:01:30">>, FALSE)>>, FALSE),
      Element("item", "8", <<"g">>, <<Res(<< <<"x">> >>, <<>>, FALSE)>>, FALSE),
      Element("item", "7", <<"B">>, <<>>, FALSE),
      Element("item", "6", <<"h">>, <<Res(<<Size123>>, <<"0:01:30">>, TRUE)>>, FALSE) }

DidlDocuments == SeqsUpTo(DidlElements, MaxEntries)

Envelope(inner) ==
    <<StartEv("s:Envelope", NoAttrs), StartEv("s:Body", NoAttrs)>> \o inner
    \o <<EndEv("s:Body"), EndEv("s:Envelope")>>

BrowseResponse(result) ==
    Envelope(<<StartEv("u:BrowseResponse", NoAttrs)>> \o result
             \o <<StartEv("NumberReturned", NoAttrs), TextEv("n"), EndEv("NumberReturned"),
                  EndEv("u:BrowseResponse")>>)

ResultElement(didl) ==
    <<StartEv("Result", NoAttrs), EscapedEv(didl), EndEv("Result")>>

FaultElement(marker) ==
    <<StartEv(marker, NoAttrs), StartEv("faultstring", NoAttrs), TextEv("UPnPError"),
      EndEv("faultstring"), EndEv(marker)>>

\* a document cut short by a syntax error after its first k events
Malformed(events, k) == Append(SubSeq(events, 1, k), SyntaxError)

SampleDocument ==
    <<Element("container", "1", <<"A">>, <<>>, FALSE),
      Element("item", "9", <<"f">>, <<Res(<<Size123>>, <<"0:01:30">>, FALSE)>>, FALSE)>>

\* response bodies around the sample document: the ways a body can come
\* with or without a Result element, a fault, or a syntax error
SoapBodies ==
    LET didl == DidlLite(SampleDocument)
    IN  { BrowseResponse(ResultElement(didl)),
          BrowseResponse(ResultElement(DidlLite(<<>>))),
          BrowseResponse(<<StartEv("Result", NoAttrs), EndEv("Result")>>),
          BrowseResponse(<<EmptyEv("Result", NoAttrs)>>),
          BrowseResponse(<<StartEv("Result", NoAttrs), BadTextEv("didl"), EndEv("Result")>>),
          BrowseResponse(<<>>),
          Envelope(FaultElement("soap:Fault")),
          Envelope(FaultElement("SOAP-ENV:Fault")),
          Envelope(FaultElement("s:Fault")),
          Envelope(FaultElement("SOAP-ENV:Fault") \o ResultElement(didl)),
          Malformed(BrowseResponse(ResultElement(didl)), 2) }
    \cup { BrowseResponse(ResultElement(Malformed(didl, k))) : k \in 0..Len(didl) }

StatusCodes == {200, 206, 401, 404, 500}

Responses ==
    [status : StatusCodes, body : {<<b>> : b \in SoapBodies} \cup {<<>>}]
    \cup [status : {200}, body : {<<BrowseResponse(ResultElement(DidlLite(d)))>> : d \in DidlDocuments}]

-----------------------------------------------------------------------------
(* Browsing: upnp::browse_directory and the Path Index *)

Container(id, title) == [id |-> id, title |-> title, is_container |-> TRUE]
Item(id, title) == [id |-> id, title |-> title, is_container |-> FALSE]

\* content directories a server can serve: container id -> its direct children
Trees ==
    { ("0" :> <<Container("1", "A"), Container("2", "B"), Item("9", "f")>>
        @@ "1" :> <<Container("3", "A")>> @@ "2" :> <<>> @@ "3" :> <<Item("8", "g")>>),
      ("0" :> <<Container("1", "A"), Container("2", "A")>>
        @@ "1" :> <<Item("9", "f")>> @@ "2" :> <<Container("4", "")>> @@ "4" :> <<>>) }

\* the content directory of the media server of a whole session
SessionTree == "0" :> <<Container("1", "A"), Item("9", "f")>> @@ "1" :> <<>>

\* parse_json_directory on a response text, given by what it contains: one
\* directory for a Plex or a Jellyfin/Emby answer, else nothing; always Ok
parse_json_directory(text) ==
    IF text = "MediaContainer"
    THEN <<[name |-> "Plex Media Server", is_directory |-> TRUE, metadata |-> None]>>
    ELSE IF text = "Items"
    THEN <<[name |-> "Media Library", is_directory |-> TRUE, metadata |-> None]>>
    ELSE <<>>

\* browse_http_directory: the endpoints tried for a path
HttpEndpoints(path) ==
    IF path = <<>>
    THEN <<"/library/sections", "/web/index.html", "/Users", "/Items", "/">>
    ELSE <<"/path">>

\* browse_http_directory over the endpoints from the i-th on; site gives the
\* answer of each endpoint ("fail": no response, a non-success status or an
\* unreadable body, else the text). The first answer that can be read is
\* parsed as JSON and ends the loop, parse_json_directory never failing
RECURSIVE HttpLoop(_, _, _)
HttpLoop(site, endpoints, i) ==
    IF i > Len(endpoints) THEN <<>>
    ELSE IF site[endpoints[i]] = "fail" THEN HttpLoop(site, endpoints, i + 1)
    ELSE parse_json_directory(site[endpoints[i]])

\* browse_http_directory: the items, or Err (empty) when there are none
browse_http_directory(site, path) == HttpLoop(site, HttpEndpoints(path), 1)

\* a server's HTTP side: an answer for each endpoint, "fail" unless given
Site(answers) ==
    [e \in {"/library/sections", "/web/index.html", "/Users", "/Items", "/", "/path"} |->
        IF e \in DOMAIN answers THEN answers[e] ELSE "fail"]

\* the HTTP sides a server can have: none, a Plex API, a Jellyfin API (its
\* /Users answers a list that names no Items), an Emby API reached at
\* /Items, and a web server with HTML listings at every path
HttpSites ==
    { Site(<<>>),
      Site("/library/sections" :> "MediaContainer"),
      Site("/Users" :> "html" @@ "/Items" :> "Items"),
      Site("/Items" :> "Items"),
      Site("/web/index.html" :> "html" @@ "/" :> "html" @@ "/path" :> "html") }

\* what browse_http_directory can return for the root path and for any other
RootHttpListings == {browse_http_directory(site, <<>>) : site \in HttpSites}
PathHttpListings == {browse_http_directory(site, <<"A">>) : site \in HttpSites}

HttpListings(path) == IF path = <<>> THEN RootHttpListings ELSE PathHttpListings

RECURSIVE PrefixWalkKeepsPrefix(_, _, _, _)
PrefixWalkKeepsPrefix(map, path, i, current_id) ==
    IF i > Len(path) THEN current_id
    ELSE IF SubSeq(path, 1, i) \in DOMAIN map
         THEN PrefixWalkKeepsPrefix(map, path, i + 1, map[SubSeq(path, 1, i)])
         ELSE current_id

\* async_browse_directory: the prefix walk for a path with no exact mapping
RECURSIVE PrefixWalk(_, _, _, _)
PrefixWalk(map, path, i, current_id) ==
    IF i > Len(path) THEN current_id
    ELSE IF SubSeq(path, 1, i) \in DOMAIN map
         THEN PrefixWalk(map, path, i + 1, map[SubSeq(path, 1, i)])
         ELSE RootId

\* async_browse_directory: the container id browsed for a path
ResolveContainerId(map, path) ==
    IF path = <<>> THEN RootId
    ELSE IF path \in DOMAIN map THEN map[path]
    ELSE PrefixWalk(map, path, 1, RootId)

MappingKeyParent(path, title) == path

\* async_browse_directory: the key a container mapping is stored under
MappingKey(path, title) == Append(path, title)

InsertAlone(map, key, id) == key :> id

\* HashMap::insert
Insert(map, key, id) == [p \in DOMAIN map \cup {key} |-> IF p = key THEN id ELSE map[p]]

\* (a Path Index that holds the mappings of the latest listing only)
StoreMappingsAfresh(map, path, mappings) ==
    LET keyOf(i) == MappingKey(path, mappings[i][1])
        keys == {keyOf(i) : i \in 1..Len(mappings)}
        last(k) == CHOOSE i \in 1..Len(mappings) :
                      keyOf(i) = k /\ \A j \in (i + 1)..Len(mappings) : keyOf(j) # k
    IN  [k \in keys |-> mappings[last(k)][2]]

\* async_browse_directory: store the mappings of one listing, in order
RECURSIVE StoreMappings(_, _, _)
StoreMappings(map, path, mappings) ==
    IF mappings = <<>> THEN map
    ELSE StoreMappings(Insert(map, MappingKey(path, Head(mappings)[1]), Head(mappings)[2]),
                       path, Tail(mappings))

\* the elements a ContentDirectory service writes for a listing of its tree
ListingElements(listing) ==
    [i \in 1..Len(listing) |->
        Element(IF listing[i].is_container THEN "container" ELSE "item",
                listing[i].id, <<listing[i].title>>,
                IF listing[i].is_container THEN <<>>
                ELSE <<Res(<<Size123>>, <<"0:01:30">>, FALSE)>>,
                FALSE)]

\* the ways a Browse of a container the service knows can fail
FailedResponses(didl) ==
    { [status |-> 500, body |-> <<Envelope(FaultElement("s:Fault"))>>],
      [status |-> 200, body |-> <<Envelope(FaultElement("SOAP-ENV:Fault"))>>],
      [status |-> 200, body |-> <<BrowseResponse(<<>>)>>],
      [status |-> 200, body |-> <<BrowseResponse(ResultElement(Malformed(didl, Len(didl) - 1)))>>] }

\* what the service of a server can answer to Browse(id): the listing of the
\* container, or a failure; a failure only when it has no such container
ServerResponses(served, id) ==
    IF id \in DOMAIN served
    THEN LET didl == DidlLite(ListingElements(served[id]))
         IN  {[status |-> 200, body |-> <<BrowseResponse(ResultElement(didl))>>]}
             \cup FailedResponses(didl)
    ELSE {[status |-> 500, body |-> <<Envelope(FaultElement("s:Fault"))>>]}

NoResponse == [status |-> 200, body |-> <<>>]

FileMetadataAlways(item) == "metadata"

\* async_browse_directory: metadata is None for a container, else
\* Some(FileMetadata { size, duration, format })
FileMetadata(item) == IF item.is_container THEN None ELSE "metadata"

\* async_browse_directory: the DirectoryItem of each parsed entry
DirectoryItems(upnp_items) ==
    [i \in 1..Len(upnp_items) |->
        [name |-> upnp_items[i].title,
         is_directory |-> upnp_items[i].is_container,
         metadata |-> FileMetadata(upnp_items[i])]]

\* async_browse_directory; browsed is what
\* browse_upnp_content_directory_with_id returns for the container id (read
\* only when the server has a ContentDirectory URL), http what the fallback
\* returns; yields the items, the error and the updated Path Index
browse_directory(server, path, map, browsed, http) ==
    LET id == ResolveContainerId(map, path)
        has_cd == server.content_directory_url # None
    IN  IF has_cd /\ browsed.ok
        THEN [contents |-> DirectoryItems(browsed.value[1]),
              error |-> NoError,
              map |-> StoreMappings(map, path, browsed.value[2]),
              id |-> id]
        ELSE LET errors == IF has_cd THEN <<"UPnP ContentDirectory failed">>
                           ELSE <<"No UPnP ContentDirectory service available">>
             IN  [contents |-> http,
                  error |-> IF http = <<>> THEN Append(errors, "HTTP browsing failed")
                            ELSE errors,
                  map |-> map,
                  id |-> id]

\* the container ids a Browse can name: those of the trees and the root
ContainerIds == UNION {DOMAIN t : t \in Trees} \cup {RootId}

\* each response of each tree with what
\* browse_upnp_content_directory_with_id returns for it
BrowseResults ==
    [t \in Trees \cup {SessionTree} |-> [id \in ContainerIds |->
        {[response |-> r, result |-> browse_upnp_content_directory_with_id(r)] :
            r \in ServerResponses(t, id)}]]

\* the responses, with their results, load_directory can meet for a path on a
\* server; no Browse is posted to a server without a ContentDirectory URL
BrowseOutcomes(server, path) ==
    IF server.content_directory_url # None
    THEN BrowseResults[tree[server.location]][ResolveContainerId(container_id_map, path)]
    ELSE {[response |-> NoResponse, result |-> Err("")]}

\* App::load_directory for the path the handler has just set
LoadDirectory(path) ==
    IF selected_server # <<>> /\ selected_server[1] < Len(servers)
    THEN \E met \in BrowseOutcomes(servers[selected_server[1] + 1], path) :
         \E http \in (IF met.result.ok THEN {<<>>} ELSE HttpListings(path)) :
            LET res == browse_directory(servers[selected_server[1] + 1], path,
                                        container_id_map, met.result, http)
            IN  /\ directory_contents' = res.contents
                /\ last_error' = res.error
                /\ selected_item' = IF res.contents = <<>> THEN <<>> ELSE <<0>>
                /\ container_id_map' = res.map
                /\ soap_response' = met.response
    ELSE UNCHANGED <<directory_contents, last_error, selected_item, container_id_map,
                     soap_response>>

discVars == <<run, chan, dps, mgrVars, servers, is_discovering, discovery_receiver,
              discovery_errors>>

\* the wrap-around step of App::previous over a list of n entries
PreviousIndex(sel, n) ==
    IF sel # <<>> /\ sel[1] > 0 THEN <<sel[1] - 1>>
    ELSE IF sel # <<>> THEN <<n - 1>>
    ELSE <<0>>

\* (a step that runs past the last entry)
NextIndexUnbounded(sel, n) == IF sel # <<>> THEN <<sel[1] + 1>> ELSE <<0>>

\* the wrap-around step of App::next over a list of n entries
NextIndex(sel, n) ==
    IF sel # <<>> /\ sel[1] < n - 1 THEN <<sel[1] + 1>> ELSE <<0>>

\* App::previous
AppPrevious ==
    /\ IF state = "ServerList"
       THEN /\ selected_server' = IF servers # <<>>
                                  THEN PreviousIndex(selected_server, Len(servers))
                                  ELSE selected_server
            /\ UNCHANGED selected_item
       ELSE /\ selected_item' = IF state = "DirectoryBrowser" /\ directory_contents # <<>>
                                THEN PreviousIndex(selected_item, Len(directory_contents))
                                ELSE selected_item
            /\ UNCHANGED selected_server
    /\ UNCHANGED <<netVars, probeVars, soapVars, discVars, last_error, state, current_directory,
                   directory_contents, container_id_map>>

\* App::next
AppNext ==
    /\ IF state = "ServerList"
       THEN /\ selected_server' = IF servers # <<>>
                                  THEN NextIndex(selected_server, Len(servers))
                                  ELSE selected_server
            /\ UNCHANGED selected_item
       ELSE /\ selected_item' = IF state = "DirectoryBrowser" /\ directory_contents # <<>>
                                THEN NextIndex(selected_item, Len(directory_contents))
                                ELSE selected_item
            /\ UNCHANGED selected_server
    /\ UNCHANGED <<netVars, probeVars, soapVars, discVars, last_error, state, current_directory,
                   directory_contents, container_id_map>>

\* App::select
AppSelect ==
    /\ IF state = "ServerList"
       THEN IF selected_server # <<>> /\ selected_server[1] < Len(servers)
            THEN /\ state' = "DirectoryBrowser"
                 /\ current_directory' = <<>>
                 /\ LoadDirectory(<<>>)
            ELSE UNCHANGED <<state, current_directory, directory_contents, last_error,
                             selected_item, container_id_map,
                             soap_response>>
       ELSE IF state = "DirectoryBrowser"
       THEN IF selected_item # <<>> /\ selected_item[1] < Len(directory_contents)
            THEN LET item == directory_contents[selected_item[1] + 1]
                 IN  IF item.is_directory
                     THEN /\ Len(current_directory) < MaxDepth
                          /\ current_directory' = Append(current_directory, item.name)
                          /\ LoadDirectory(Append(current_directory, item.name))
                          /\ UNCHANGED state
                     ELSE \* play_selected_file: the player starts or fails
                          /\ last_error' \in {NoError, <<"Failed to play file">>}
                          /\ UNCHANGED <<state, current_directory, directory_contents,
                                         selected_item, container_id_map,
                             soap_response>>
            ELSE UNCHANGED <<state, current_directory, directory_contents, last_error,
                             selected_item, container_id_map,
                             soap_response>>
       ELSE /\ state' = "DirectoryBrowser"
            /\ UNCHANGED <<current_directory, directory_contents, last_error,
                           selected_item, container_id_map,
                             soap_response>>
    /\ UNCHANGED <<netVars, probeVars, browse_result, in_flight, discVars, selected_server>>

LeavesBrowserAnywhere(path) == TRUE

\* App::go_back in the browser: at the empty path it returns to the server list
LeavesBrowser(path) == path = <<>>

\* App::go_back
AppGoBack ==
    /\ IF state = "DirectoryBrowser"
       THEN IF LeavesBrowser(current_directory)
            THEN /\ state' = "ServerList"
                 /\ UNCHANGED <<current_directory, directory_contents, last_error,
                                selected_item, container_id_map,
                             soap_response>>
            ELSE LET parent == SubSeq(current_directory, 1, Len(current_directory) - 1)
                 IN  /\ current_directory' = parent
                     /\ LoadDirectory(parent)
                     /\ UNCHANGED state
       ELSE IF state = "FileDetails"
       THEN /\ state' = "DirectoryBrowser"
            /\ UNCHANGED <<current_directory, directory_contents, last_error,
                           selected_item, container_id_map,
                             soap_response>>
       ELSE UNCHANGED <<state, current_directory, directory_contents, last_error,
                        selected_item, container_id_map,
                             soap_response>>
    /\ UNCHANGED <<netVars, probeVars, browse_result, in_flight, discVars, selected_server>>

-----------------------------------------------------------------------------
(* The Multicast Discovery Probe (upnp_ssdp.rs) *)

\* datagrams, read timeouts and read failures one listen window sees
MaxEvents == 2

\* an SSDP response as text: its first line and the lines after it; a line
\* with a colon is what stands before and after its first colon
Line(name, value) == [colon |-> TRUE, name |-> name, value |-> value]
Blank == [colon |-> FALSE, name |-> "", value |-> ""]
Response(status, lines) == [utf8 |-> TRUE, status |-> status, lines |-> lines]
NotUtf8 == [utf8 |-> FALSE, status |-> "", lines |-> <<>>]

\* str::to_lowercase on the header names that occur
to_lowercase_kept(s) == s
to_lowercase(s) ==
    CASE s \in {"LOCATION", "Location", "location"} -> "location"
      [] s \in {"SERVER", "Server"} -> "server"
      [] s \in {"ST", "St"} -> "st"
      [] s \in {"USN", "usn"} -> "usn"
      [] s = "X-LOCATION" -> "x-location"
      [] OTHER -> s

\* str::starts_with("HTTP/1.1 200 OK") on the first lines that occur
StartsWith200(status) == status \in {"HTTP/1.1 200 OK", "HTTP/1.1 200 OKAY"}

\* the uuid part of a USN cut at "::" and at 8 characters (<<>> without "uuid:")
UuidPart(usn) ==
    CASE usn = "uuid:0a1b2c3d-4e5f::upnp:rootdevice" -> <<"0a1b2c3d">>
      [] usn = "uuid:9f8e::urn:schemas-upnp-org:device:MediaServer:1" -> <<"9f8e">>
      [] usn = "uuid:77" -> <<"77">>
      [] OTHER -> <<>>

\* SsdpDiscovery::extract_base_url on the locations that occur:
\* scheme://host:port with the port of the scheme when the URL names none,
\* or the text itself when it is not a URL
SsdpBaseUrl(location) ==
    CASE location = "http://192.168.1.21:8200/rootDesc.xml" -> "http://192.168.1.21:8200"
      [] location = "http://192.168.1.22/description.xml" -> "http://192.168.1.22:80"
      [] OTHER -> location

\* the last value of a header among the lines (<<>> = None)
RECURSIVE HeaderValue(_, _, _)
HeaderValue(lines, header, found) ==
    IF lines = <<>> THEN found
    ELSE HeaderValue(Tail(lines), header,
                     IF Head(lines).colon /\ to_lowercase(Head(lines).name) = header
                     THEN <<Head(lines).value>> ELSE found)

\* fn parse_ssdp_response: Some(device) or None
parse_ssdp_response(response) ==
    IF ~StartsWith200(response.status) THEN <<>>
    ELSE LET location == HeaderValue(response.lines, "location", <<>>)
             server == HeaderValue(response.lines, "server", <<>>)
             st == HeaderValue(response.lines, "st", <<>>)
             usn == HeaderValue(response.lines, "usn", <<>>)
             device_type == IF st = <<>> THEN "Unknown" ELSE st[1]
             manufacturer == IF server = <<>> THEN "Unknown" ELSE server[1]
             friendly_name == IF usn # <<>> /\ UuidPart(usn[1]) # <<>>
                              THEN <<"Device-", UuidPart(usn[1])[1]>>
                              ELSE <<device_type>>
         IN  IF location = <<>> THEN <<>>
             ELSE << [name |-> IF manufacturer # "Unknown"
                               THEN <<friendly_name, device_type, manufacturer>>
                               ELSE <<friendly_name, device_type>>,
                      location |-> location[1],
                      base_url |-> SsdpBaseUrl(location[1]),
                      device_type |-> device_type,
                      manufacturer |-> manufacturer,
                      friendly_name |-> friendly_name] >>

\* impl From<io::Error> for DiscoveryError, which the map_err closures of
\* new and discover_devices repeat
DiscoveryErrorGeneric(kind) == "NetworkError"
DiscoveryErrorFrom(kind) ==
    IF kind = "PermissionDenied" THEN "PermissionDenied" ELSE "NetworkError"

\* the socket calls of SsdpDiscovery::new that can fail, in order
NewSteps == <<"bind", "set_read_timeout", "set_write_timeout", "set_nonblocking",
              "join_multicast_v4">>
RootSearch == "send_to upnp:rootdevice"
MediaSearch == "send_to MediaServer:1"
SocketSteps == Range(NewSteps) \cup {RootSearch, MediaSearch}

\* the error of the first failing call among the steps (None when all succeed)
RECURSIVE FirstError(_, _)
FirstError(io, steps) ==
    IF steps = <<>> THEN None
    ELSE IF io[Head(steps)] # "Ok" THEN DiscoveryErrorFrom(io[Head(steps)])
    ELSE FirstError(io, Tail(steps))

\* (before it, a list that keeps every device)
PushDevice(devices, device) == ((Cardinality(DOMAIN devices) + 1) :> device) @@ devices
\* HashMap::insert: the device under its location, replacing an earlier one
InsertDevice(devices, device) == (device.location :> device) @@ devices

\* devices.into_values().collect(): the values in the order the map iterates
DeviceLists(devices) ==
    LET n == Cardinality(DOMAIN devices)
        orders == {p \in [1..n -> DOMAIN devices] : \A i, j \in 1..n : i # j => p[i] # p[j]}
    IN  {[i \in 1..n |-> devices[p[i]]] : p \in orders}

\* the end of discover_devices once listening is over
Collected(devices) ==
    IF DOMAIN devices = {} THEN {[ok |-> FALSE, error |-> "NoDevicesFound", devices |-> <<>>]}
    ELSE {[ok |-> TRUE, error |-> None, devices |-> s] : s \in DeviceLists(devices)}

ProbeFailed(error) == [ok |-> FALSE, error |-> error, devices |-> <<>>]

\* recv_from failed and not with a read timeout: a hard error while nothing
\* is collected, else the end of the loop
\* (before it, a probe that fails on every such failure)
ReadFailedHard(devices) == {ProbeFailed("NetworkError")}
ReadFailed(devices) ==
    IF DOMAIN devices = {} THEN {ProbeFailed("NetworkError")} ELSE Collected(devices)

\* the sockets a probe can meet: at most one failing call, and what the
\* listen window receives when listening begins
IoErrorKinds == {"PermissionDenied", "AddrInUse"}
ReadTimeouts == {"WouldBlock", "TimedOut"}
ReadFailures == {"ConnectionReset", "PermissionDenied"}

SsdpResponses ==
    { Response("HTTP/1.1 200 OK",
               <<Line("LOCATION", "http://192.168.1.21:8200/rootDesc.xml"),
                 Line("USN", "uuid:0a1b2c3d-4e5f::upnp:rootdevice"),
                 Line("ST", "upnp:rootdevice"), Line("SERVER", "MiniDLNA")>>),
      Response("HTTP/1.1 200 OK",
               <<Line("Location", "http://192.168.1.21:8200/rootDesc.xml"),
                 Line("usn", "uuid:9f8e::urn:schemas-upnp-org:device:MediaServer:1"),
                 Line("St", "urn:schemas-upnp-org:device:MediaServer:1")>>),
      Response("HTTP/1.1 200 OK",
               <<Line("CACHE-CONTROL", "max-age=1800"), Blank,
                 Line("location", "http://192.168.1.22/description.xml"), Line("USN", "uuid:77")>>),
      Response("HTTP/1.1 200 OK",
               <<Line("LOCATION", "http://192.168.1.21:8200/rootDesc.xml"),
                 Line("LOCATION", "not a url")>>),
      Response("HTTP/1.1 200 OKAY", <<Line("LOCATION", "http://192.168.1.22/description.xml")>>),
      Response("HTTP/1.1 200 OK",
               <<Line("X-LOCATION", "http://192.168.1.22/description.xml"), Line("ST", "upnp:rootdevice")>>),
      Response("HTTP/1.1 200 OK", <<>>),
      Response("HTTP/1.1 404 Not Found", <<Line("LOCATION", "http://192.168.1.21:8200/rootDesc.xml")>>),
      Response("NOTIFY * HTTP/1.1", <<Line("LOCATION", "http://192.168.1.22/description.xml")>>),
      Response("http/1.1 200 ok", <<Line("LOCATION", "http://192.168.1.22/description.xml")>>),
      NotUtf8 }

Datagram(response) == [kind |-> "Ok", response |-> response]
ReadError(kind) == [kind |-> kind, response |-> NotUtf8]

SsdpEvents ==
    {Datagram(r) : r \in SsdpResponses} \cup {ReadError(k) : k \in ReadTimeouts \cup ReadFailures}

AllOk == [s \in SocketSteps |-> "Ok"]

Sockets ==
    {[io |-> AllOk, events |-> e] : e \in SeqsUpTo(SsdpEvents, MaxEvents)}
    \cup {[io |-> [AllOk EXCEPT ![MediaSearch] = k], events |-> e] :
             k \in IoErrorKinds, e \in SeqsUpTo(SsdpEvents, MaxEvents)}
    \cup {[io |-> [AllOk EXCEPT ![s] = k], events |-> <<>>] :
             s \in SocketSteps \ {MediaSearch}, k \in IoErrorKinds}

NoSocket == [io |-> AllOk, events |-> <<>>]

ProbeIdle == [pc |-> "new", exit |-> None, received |-> 0, parsed |-> <<>>,
              devices |-> <<>>, result |-> <<>>]

\* SsdpDiscovery::new
SsdpNew ==
    /\ probe.pc = "new"
    /\ LET error == FirstError(sock.io, NewSteps)
       IN  probe' = IF error = None THEN [probe EXCEPT !.pc = "send"]
                    ELSE [probe EXCEPT !.pc = "done", !.exit = "new",
                                       !.result = <<ProbeFailed(error)>>]
    /\ UNCHANGED <<netVars, content_dir_url, scanned, soapVars, run, chan, dps, mgrVars, appVars>>

\* discover_devices up to the listen loop: the two searches, the second
\* with its result dropped
SsdpSend ==
    /\ probe.pc = "send"
    /\ LET error == FirstError(sock.io, <<RootSearch>>)
       IN  probe' = IF error = None THEN [probe EXCEPT !.pc = "listen"]
                    ELSE [probe EXCEPT !.pc = "done", !.exit = "send",
                                       !.result = <<ProbeFailed(error)>>]
    /\ UNCHANGED <<netVars, content_dir_url, scanned, soapVars, run, chan, dps, mgrVars, appVars>>

\* one turn of the listen loop: recv_from and what follows it
SsdpReceive ==
    /\ probe.pc = "listen"
    /\ probe.received < Len(sock.events)
    /\ LET event == sock.events[probe.received + 1]
           parsed == IF event.kind = "Ok" /\ event.response.utf8
                     THEN parse_ssdp_response(event.response) ELSE <<>>
           turned == [probe EXCEPT !.received = @ + 1, !.parsed = parsed]
       IN  IF event.kind = "Ok"
           THEN probe' = [turned EXCEPT !.devices = IF parsed = <<>> THEN @
                                                     ELSE InsertDevice(@, parsed[1])]
           ELSE IF event.kind \in ReadTimeouts
           THEN probe' = turned
           ELSE \E result \in ReadFailed(probe.devices) :
                   probe' = [turned EXCEPT !.pc = "done", !.exit = "recv",
                                           !.result = <<result>>]
    /\ UNCHANGED <<netVars, content_dir_url, scanned, soapVars, run, chan, dps, mgrVars, appVars>>

\* the listen window is over: the loop ends and the collected devices return
SsdpWindowEnds ==
    /\ probe.pc = "listen"
    /\ probe.received = Len(sock.events)
    /\ \E result \in Collected(probe.devices) :
          probe' = [probe EXCEPT !.pc = "done", !.exit = "window", !.result = <<result>>]
    /\ UNCHANGED <<netVars, content_dir_url, scanned, soapVars, run, chan, dps, mgrVars, appVars>>

\* The listen loop against the clock.  Time is counted in milliseconds
\* since start_time; the window and the read timeout are the durations
\* SsdpDiscovery::new sets.
ListenWindow == 5000
ReadTimeout == 100

\* the shortest time a read that returns a datagram or a failure takes
Promptly == ReadTimeout \div 2

\* `start_time.elapsed() < self.timeout`
WindowOpen(elapsed) == elapsed < ListenWindow

\* (a clock that stands still while datagrams are read)
Frozen(event) == IF event.kind = "Ok" THEN {0} ELSE {ReadTimeout}

\* what one recv_from takes: a datagram arrives before the read timeout runs
\* out, a timed-out read takes the whole of it, a failed read returns at some
\* point before it; the clock has advanced whenever the call returns
Elapses(event) ==
    IF event.kind \in ReadTimeouts THEN {ReadTimeout} ELSE {Promptly, ReadTimeout}

\* what the socket can yield at any turn of the loop: a datagram that
\* announces a device, one that announces none, a read timeout, a failure
ListenEvents ==
    {Datagram(r) : r \in {q \in SsdpResponses : ~q.utf8 \/ Len(q.lines) = 4}}
    \cup {ReadError("TimedOut"), ReadError("ConnectionReset")}

\* the probe as the loop is entered; `silent` records a read that returned
\* no datagram
Listening == [pc |-> "listen", exit |-> None, received |-> 0, parsed |-> <<>>,
              devices |-> <<>>, result |-> <<>>, elapsed |-> 0, silent |-> FALSE]

\* one turn of the listen loop with whatever the socket yields at that moment
ListenReceive ==
    /\ probe.pc = "listen"
    /\ WindowOpen(probe.elapsed)
    /\ \E event \in ListenEvents : \E dt \in Elapses(event) :
          LET parsed == IF event.kind = "Ok" /\ event.response.utf8
                        THEN parse_ssdp_response(event.response) ELSE <<>>
              turned == [probe EXCEPT !.received = @ + 1, !.elapsed = @ + dt,
                                      !.silent = @ \/ event.kind # "Ok"]
          IN  IF event.kind = "Ok"
              THEN probe' = [turned EXCEPT !.devices = IF parsed = <<>> THEN @
                                                       ELSE InsertDevice(@, parsed[1])]
              ELSE IF event.kind \in ReadTimeouts
              THEN probe' = turned
              ELSE \E result \in ReadFailed(probe.devices) :
                      probe' = [turned EXCEPT !.pc = "done", !.exit = "recv",
                                              !.result = <<result>>]
    /\ UNCHANGED <<netVars, content_dir_url, scanned, soapVars, run, chan, dps, mgrVars, appVars>>

\* the loop condition fails: the collected devices return
ListenExit ==
    /\ probe.pc = "listen"
    /\ ~WindowOpen(probe.elapsed)
    /\ \E result \in Collected(probe.devices) :
          probe' = [probe EXCEPT !.pc = "done", !.exit = "window", !.result = <<result>>]
    /\ UNCHANGED <<netVars, content_dir_url, scanned, soapVars, run, chan, dps, mgrVars, appVars>>

-----------------------------------------------------------------------------
(* The Descriptor Resolver (upnp.rs) *)

\* <service> elements of one device description
MaxServices == 2

\* a URL as written: the port is an option (<<>> when the URL names none)
Url(scheme, host, port, path) ==
    [scheme |-> scheme, host |-> host, port |-> port, path |-> path]
NotAUrl == Url("", "", <<>>, "not a url")

DefaultPort(scheme) == IF scheme = "https" THEN 443 ELSE 80

\* url::Url::parse(..).is_ok()
UrlParses(u) == u.scheme # ""

\* Url::port: None when the URL names no port or the default one of its scheme
UrlPort(u) == IF u.port = <<DefaultPort(u.scheme)>> THEN <<>> ELSE u.port

\* fn extract_base_url: scheme://host:port, the port of the scheme when
\* Url::port gives none
ExtractBaseUrl(u) ==
    IF UrlParses(u)
    THEN <<u.scheme, u.host, IF UrlPort(u) = <<>> THEN DefaultPort(u.scheme) ELSE UrlPort(u)[1]>>
    ELSE <<u.path>>

\* parse_content_directory_url: its own base URL, url.port().unwrap_or(80)
\* (before it, the base URL extract_base_url gives)
DescriptorBaseUrlByScheme(u) == ExtractBaseUrl(u)
DescriptorBaseUrl(u) ==
    <<u.scheme, u.host, IF UrlPort(u) = <<>> THEN 80 ELSE UrlPort(u)[1]>>

\* str::contains("ContentDirectory") on the service types that occur
ContainsContentDirectory(text) ==
    text \in {"urn:schemas-upnp-org:service:ContentDirectory:1", "ContentDirectory"}

\* str::starts_with("http") on the control URLs that occur
StartsWithHttp(text) ==
    text \in {"http://192.168.1.21:32469/ContentDirectory/control", "https://media.local/cd"}

\* the full URL: the control URL itself, or the base URL followed by it
FullUrl(base_url, control_url) ==
    IF StartsWithHttp(control_url) THEN <<control_url>> ELSE Append(base_url, control_url)

DescriptorStart ==
    [in_service |-> FALSE, in_service_type |-> FALSE, in_control_url |-> FALSE,
     current_service_type |-> "", current_control_url |-> ""]

\* Event::Start
\* (before it, a parser that keeps what the previous service left)
DescOnStartKeeping(p, e) ==
    IF e.name = "service" THEN [p EXCEPT !.in_service = TRUE]
    ELSE IF e.name = "serviceType" THEN [p EXCEPT !.in_service_type = TRUE]
    ELSE IF e.name = "controlURL" THEN [p EXCEPT !.in_control_url = TRUE]
    ELSE p
DescOnStart(p, e) ==
    IF e.name = "service"
    THEN [p EXCEPT !.in_service = TRUE, !.current_service_type = "", !.current_control_url = ""]
    ELSE IF e.name = "serviceType" THEN [p EXCEPT !.in_service_type = TRUE]
    ELSE IF e.name = "controlURL" THEN [p EXCEPT !.in_control_url = TRUE]
    ELSE p

\* Event::Text
DescOnText(p, e) ==
    IF ~p.in_service THEN p
    ELSE IF p.in_service_type THEN [p EXCEPT !.current_service_type = unescape_or_default(e)]
    ELSE IF p.in_control_url THEN [p EXCEPT !.current_control_url = unescape_or_default(e)]
    ELSE p

\* Event::End of a service: whether the function returns here
ServiceMatches(p) ==
    ContainsContentDirectory(p.current_service_type) /\ p.current_control_url # ""

\* Event::End otherwise
DescOnEnd(p, e) ==
    IF e.name = "service" THEN [p EXCEPT !.in_service = FALSE]
    ELSE IF e.name = "serviceType" THEN [p EXCEPT !.in_service_type = FALSE]
    ELSE IF e.name = "controlURL" THEN [p EXCEPT !.in_control_url = FALSE]
    ELSE p

\* parse_content_directory_url: the loop over the events of the description
RECURSIVE DescriptorLoop(_, _, _)
DescriptorLoop(events, p, base_url) ==
    IF events = <<>> THEN <<>>
    ELSE LET e == Head(events)
         IN  IF e.ev = "Err" THEN <<>>
             ELSE IF e.ev = "End" /\ e.name = "service" /\ ServiceMatches(p)
             THEN <<FullUrl(base_url, p.current_control_url)>>
             ELSE DescriptorLoop(Tail(events),
                                 IF e.ev = "Start" THEN DescOnStart(p, e)
                                 ELSE IF e.ev = "Text" THEN DescOnText(p, e)
                                 ELSE IF e.ev = "End" THEN DescOnEnd(p, e)
                                 ELSE p,
                                 base_url)

\* fn parse_content_directory_url: Some(url) (a one-element sequence) or None
\* (before it, a resolver that finds no service)
ResolveNothing(device_desc, device_url) == <<>>
parse_content_directory_url(device_desc, device_url) ==
    IF ~UrlParses(device_url) THEN <<>>
    ELSE DescriptorLoop(device_desc, DescriptorStart, DescriptorBaseUrl(device_url))

\* a <service> of a description: its serviceType and controlURL are options,
\* an empty text an element without character data
Service(type, control) == [type |-> type, control |-> control]

TextElement(name, text) ==
    IF text = "" THEN <<StartEv(name, NoAttrs), EndEv(name)>>
    ELSE <<StartEv(name, NoAttrs), TextEv(text), EndEv(name)>>

ServiceEvents(s) ==
    <<StartEv("service", NoAttrs)>>
    \o (IF s.type = <<>> THEN <<>> ELSE TextElement("serviceType", s.type[1]))
    \o TextElement("serviceId", "urn:upnp-org:serviceId:ContentDirectory")
    \o (IF s.control = <<>> THEN <<>> ELSE TextElement("controlURL", s.control[1]))
    \o <<EndEv("service")>>

DescriptionHead ==
    <<StartEv("root", NoAttrs), StartEv("device", NoAttrs)>>
    \o TextElement("friendlyName", "ContentDirectory")
    \o <<StartEv("serviceList", NoAttrs)>>

DescriptionEvents(services) ==
    DescriptionHead
    \o Flatten([i \in 1..Len(services) |-> ServiceEvents(services[i])])
    \o <<EndEv("serviceList"), EndEv("device"), EndEv("root")>>

\* the text of a description: its events, cut short by a syntax error after
\* the first cut[1] of them when cut is not <<>>
DescriptionText(d) ==
    IF d.cut = <<>> THEN DescriptionEvents(d.services)
    ELSE Malformed(DescriptionEvents(d.services), d.cut[1])

Services ==
    { Service(<<"urn:schemas-upnp-org:service:ContentDirectory:1">>, <<"/ContentDirectory/control">>),
      Service(<<"urn:schemas-upnp-org:service:ContentDirectory:1">>,
              <<"http://192.168.1.21:32469/ContentDirectory/control">>),
      Service(<<"urn:schemas-upnp-org:service:ContentDirectory:1">>, <<"">>),
      Service(<<"urn:schemas-upnp-org:service:ContentDirectory:1">>, <<>>),
      Service(<<"urn:schemas-upnp-org:service:AVTransport:1">>, <<"/AVTransport/control">>),
      Service(<<>>, <<"ctl">>) }

DeviceUrls ==
    { Url("http", "192.168.1.21", <<32469>>, "/DeviceDescription.xml"),
      Url("http", "192.168.1.22", <<>>, "/desc/root.xml"),
      Url("https", "media.local", <<>>, "/description.xml"),
      Url("https", "media.local", <<8443>>, "/description.xml") }

\* the events of the longest description
MaxCut == Len(DescriptionHead) + 11 * MaxServices + 3

Descriptions ==
    {d \in [services : SeqsUpTo(Services, MaxServices),
            cut : {<<>>} \cup {<<k>> : k \in 0..MaxCut},
            url : DeviceUrls] :
        d.cut # <<>> => d.cut[1] < Len(DescriptionEvents(d.services))}

NoDescription == [services |-> <<>>, cut |-> <<>>, url |-> NotAUrl]

\* the Descriptor Resolver on one description
ResolveDescriptor ==
    /\ content_dir_url = <<>>
    /\ content_dir_url' = <<parse_content_directory_url(DescriptionText(description),
                                                       description.url)>>
    /\ UNCHANGED <<netVars, probe, scanned, soapVars, run, chan, dps, mgrVars, appVars>>

-----------------------------------------------------------------------------
(* The endpoint probe of the Port Scan, one HTTP exchange at a time (upnp.rs) *)

\* media_ports
ScanPorts == <<DlnaPort, PlexPort, 8096, 8920>>

\* the endpoints probed on the other ports, in order
GenericPaths == <<"/", "/status", "/identity">>

\* what a host answers to a GET: a status (0 when send() fails) and, for a
\* description, the body (<<>> when text() fails)
Answer(status, body) == [status |-> status, body |-> body]

\* the test of a generic endpoint: success or 401 Unauthorized
\* (before it, a test that takes success only)
IsHitOnSuccess(status) == is_success(status)
IsHit(status) == is_success(status) \/ status = 401

\* fn extract_xml_value: the text between the first <tag> and the </tag>
\* that follows it
extract_xml_value(events, tag) ==
    LET opens == {i \in 1..Len(events) : events[i].ev = "Start" /\ events[i].name = tag}
    IN  IF opens = {} THEN <<>>
        ELSE LET start == CHOOSE i \in opens : \A j \in opens : i <= j
                 closes == {j \in (start + 1)..Len(events) :
                               events[j].ev = "End" /\ events[j].name = tag}
             IN  IF closes = {} THEN <<>>
                 ELSE IF events[start + 1].ev = "Text" THEN <<events[start + 1].s>>
                 ELSE <<"">>

EndpointUrl(ip, port, path) == Url("http", ip, <<port>>, path)

\* scan_single_endpoint on port 32469: the description, fetched directly
ScanDlna(ip, port, answers) ==
    LET answer == answers[DescPath]
        desc_url == EndpointUrl(ip, port, DescPath)
    IN  [requested |-> <<DescPath>>,
         device |->
            IF answer.status # 0 /\ is_success(answer.status) /\ answer.body # <<>>
            THEN LET desc_text == DescriptionText(answer.body[1])
                     friendly_name == extract_xml_value(desc_text, "friendlyName")
                 IN  << [name |-> <<IF friendly_name = <<>> THEN "Plex DLNA" ELSE friendly_name[1],
                                    "[MediaServer:1]">>,
                         location |-> desc_url,
                         base_url |-> EndpointUrl(ip, port, ""),
                         device_client |-> "Plex DLNA",
                         content_directory_url |->
                             parse_content_directory_url(desc_text, desc_url)] >>
            ELSE <<>>]

\* scan_single_endpoint on another port: the endpoints in turn, up to the
\* first that answers with a hit
RECURSIVE ScanGeneric(_, _, _, _, _)
ScanGeneric(ip, port, answers, endpoints, requested) ==
    IF endpoints = <<>> THEN [requested |-> requested, device |-> <<>>]
    ELSE LET answer == answers[Head(endpoints)]
         IN  IF answer.status # 0 /\ IsHit(answer.status)
             THEN [requested |-> Append(requested, Head(endpoints)),
                   device |-> << [name |-> <<"Server", port>>,
                                  location |-> EndpointUrl(ip, port, ""),
                                  base_url |-> EndpointUrl(ip, port, ""),
                                  device_client |-> "DirectScan",
                                  content_directory_url |-> <<>>] >>]
             ELSE ScanGeneric(ip, port, answers, Tail(endpoints),
                              Append(requested, Head(endpoints)))

\* async fn scan_single_endpoint, with what it requested
ScanSingleEndpoint(ip, port, answers) ==
    IF port = DlnaPort THEN ScanDlna(ip, port, answers)
    ELSE ScanGeneric(ip, port, answers, GenericPaths, <<>>)

\* the bodies a host can serve as its description: one with a
\* ContentDirectory service, one without, and a page that is no XML
ProbeBodies ==
    { [services |-> <<Service(<<"urn:schemas-upnp-org:service:ContentDirectory:1">>,
                              <<"/ContentDirectory/control">>)>>, cut |-> <<>>],
      [services |-> <<Service(<<"urn:schemas-upnp-org:service:AVTransport:1">>,
                              <<"/AVTransport/control">>)>>, cut |-> <<>>],
      [services |-> <<>>, cut |-> <<0>>] }

ProbeStatuses == {0, 200, 401, 404, 500}

ProbeAnswers ==
    {a \in [Range(GenericPaths) \cup {DescPath} ->
               {Answer(s, <<>>) : s \in ProbeStatuses}
               \cup {Answer(200, <<b>>) : b \in ProbeBodies}] :
        \A p \in Range(GenericPaths) : a[p].body = <<>>}

ScannedEndpoints == [ip : {21}, port : Range(ScanPorts), answers : ProbeAnswers]

NoEndpoint ==
    [ip |-> 0, port |-> 0,
     answers |-> [p \in Range(GenericPaths) \cup {DescPath} |-> Answer(0, <<>>)]]

\* one scan task on its endpoint
ProbeEndpoint ==
    /\ scanned = <<>>
    /\ scanned' = <<ScanSingleEndpoint(endpoint.ip, endpoint.port, endpoint.answers)>>
    /\ UNCHANGED <<netVars, probe, content_dir_url, soapVars, run, chan, dps, mgrVars, appVars>>

-----------------------------------------------------------------------------
(* Specifications *)

NoTree == tree = <<>>

Networks ==
    /\ NoTree
    /\ ssdpNet \in [ok : BOOLEAN, stream : SeqsUpTo(SsdpAnswers, MaxSsdp)]
    /\ ~ssdpNet.ok => ssdpNet.stream = <<>>
    /\ scanNet \in [local : BOOLEAN, out : [TaskIds -> {"miss", "hit", "hitcd"}]]
    /\ \A t \in TaskIds : scanNet.out[t] \in Outcomes(t)
    /\ ~scanNet.local => \A t \in TaskIds : scanNet.out[t] = "miss"

\* the sequences discover_devices can return: non-empty, one device per location
MgrSsdpLists ==
    {s \in SeqsUpTo(MgrSsdpUniverse, MaxSsdp) : s # <<>> /\ NoDupLocation(s)}

MgrNetworks ==
    /\ mgrNet \in [perm : {"Granted", "Denied", "Unknown"},
                   ifaces : -1..MaxIfaces,
                   ssdp : [err : {None, "PermissionDenied", "NetworkError", "NoDevicesFound"},
                           devs : MgrSsdpLists \cup {<<>>}],
                   primary : BOOLEAN,
                   out : [MgrTaskIds -> {"miss", "hit"}]]
    /\ (mgrNet.ssdp.err = None) = (mgrNet.ssdp.devs # <<>>)
    /\ mgrNet.perm # "Granted" => mgrNet.ssdp.err = "PermissionDenied"
    /\ mgrNet.primary => mgrNet.ifaces >= 1
    /\ ~mgrNet.primary => \A t \in MgrTaskIds : mgrNet.out[t] = "miss"

NoMgrNetwork ==
    mgrNet = [perm |-> "Granted", ifaces |-> 0, ssdp |-> [err |-> "NoDevicesFound", devs |-> <<>>],
              primary |-> FALSE, out |-> [t \in MgrTaskIds |-> "miss"]]

\* App::new
AppNew ==
    /\ servers = <<>>
    /\ is_discovering = FALSE
    /\ discovery_receiver = 0
    /\ discovery_errors = <<>>
    /\ last_error = NoError
    /\ state = "ServerList"
    /\ selected_server = <<>>
    /\ current_directory = <<>>
    /\ directory_contents = <<>>
    /\ selected_item = <<>>
    /\ container_id_map = (<<>> :> RootId)

\* no description has been resolved
NoDescriptor ==
    /\ description = NoDescription
    /\ content_dir_url = <<>>

\* no endpoint has been scanned
NoScan ==
    /\ endpoint = NoEndpoint
    /\ scanned = <<>>

\* no Multicast Probe has been made
NoProbe ==
    /\ sock = NoSocket
    /\ probe = ProbeIdle
    /\ NoDescriptor
    /\ NoScan

\* no Browse has been posted
NoSoap ==
    /\ soap_response = NoResponse
    /\ browse_result = <<>>
    /\ in_flight = <<>>

Idle ==
    /\ NoSoap
    /\ NoProbe
    /\ run = [r \in Runs |-> NoRun]
    /\ chan = [r \in Runs |-> NoChan]
    /\ dps = DpsIdle
    /\ mgr = MgrNone
    /\ dud = DpsIdle
    /\ AppNew

NoNetwork ==
    /\ NoTree
    /\ ssdpNet = [ok |-> TRUE, stream |-> <<>>]
    /\ scanNet = [local |-> FALSE, out |-> [t \in TaskIds |-> "miss"]]

\* one blocking discovery call, through either API; the collaborators of one
\* implementation vary while those of the other answer nothing
Init ==
    /\ \/ Networks /\ NoMgrNetwork
       \/ NoNetwork /\ MgrNetworks
    /\ Idle

Next ==
    \/ DpsCall
    \/ DpsRecv
    \/ DpsTimeout
    \/ Worker(1)
    \/ DudCall
    \/ DudRecv
    \/ DudTimeout
    \/ Manager

Spec == Init /\ [][Next]_vars

NextApp ==
    \/ AppStartDiscovery
    \/ AppCheckDiscoveryUpdates
    \/ AppRefreshServers
    \/ \E r \in Runs : Worker(r)

InitApp ==
    /\ Networks
    /\ NoMgrNetwork
    /\ Idle

SpecApp == InitApp /\ [][NextApp]_vars

\* the server lists a finished discovery leaves in the App
NavServers ==
    { scan_single_endpoint(21, DlnaPort, "hitcd"),
      scan_single_endpoint(21, DlnaPort, "hitcd") \o scan_single_endpoint(21, PlexPort, "hit") }

\* a server with no ContentDirectory service serves no tree
NoContent == 0 :> <<>>

\* the App once a discovery has completed, in front of its servers
InitNav ==
    /\ NoSoap
    /\ NoProbe
    /\ ssdpNet = [ok |-> TRUE, stream |-> <<>>]
    /\ scanNet = [local |-> FALSE, out |-> [t \in TaskIds |-> "miss"]]
    /\ NoMgrNetwork
    /\ run = [r \in Runs |-> NoRun]
    /\ chan = [r \in Runs |-> NoChan]
    /\ dps = DpsIdle
    /\ mgr = MgrNone
    /\ dud = DpsIdle
    /\ servers \in NavServers
    /\ tree \in [Locations(servers) -> Trees \cup {NoContent}]
    /\ \A i \in 1..Len(servers) :
          (tree[servers[i].location] = NoContent) = (servers[i].content_directory_url = None)
    /\ is_discovering = FALSE
    /\ discovery_receiver = 0
    /\ discovery_errors = <<>>
    /\ last_error = NoError
    /\ state = "ServerList"
    /\ selected_server = <<>>
    /\ current_directory = <<>>
    /\ directory_contents = <<>>
    /\ selected_item = <<>>
    /\ container_id_map = (<<>> :> RootId)

NextNav ==
    \/ AppPrevious
    \/ AppNext
    \/ AppSelect
    \/ AppGoBack

SpecNav == InitNav /\ [][NextNav]_vars

MainThreadAlwaysFree == TRUE

\* run_app handles one key at a time, and browse_directory blocks the handler
\* on the Browse call (rt.block_on)
MainThreadFree == in_flight = <<>>

\* App::select: the path it calls load_directory for, if it does
SelectTarget ==
    IF state = "ServerList"
    THEN IF selected_server # <<>> /\ selected_server[1] < Len(servers)
         THEN << <<>> >> ELSE <<>>
    ELSE IF /\ state = "DirectoryBrowser"
            /\ selected_item # <<>> /\ selected_item[1] < Len(directory_contents)
            /\ directory_contents[selected_item[1] + 1].is_directory
    THEN <<Append(current_directory, directory_contents[selected_item[1] + 1].name)>>
    ELSE <<>>

\* App::go_back: the path it calls load_directory for, if it does
GoBackTarget ==
    IF state = "DirectoryBrowser" /\ current_directory # <<>>
    THEN <<SubSeq(current_directory, 1, Len(current_directory) - 1)>>
    ELSE <<>>

\* a handler from the key to the Browse POST inside load_directory
BrowsePosted(target) ==
    /\ MainThreadFree
    /\ target # <<>>
    /\ Len(target[1]) <= MaxDepth
    /\ state' = "DirectoryBrowser"
    /\ current_directory' = target[1]
    /\ in_flight' = Append(in_flight, target[1])
    /\ UNCHANGED <<netVars, probeVars, soap_response, browse_result, discVars, selected_server,
                   directory_contents, last_error, selected_item, container_id_map>>

SelectPosts == BrowsePosted(SelectTarget)

GoBackPosts == BrowsePosted(GoBackTarget)

\* the Browse call returns and load_directory, then the handler, complete
BrowseReturned ==
    /\ in_flight # <<>>
    /\ LoadDirectory(Head(in_flight))
    /\ in_flight' = Tail(in_flight)
    /\ UNCHANGED <<netVars, probeVars, browse_result, discVars, state, selected_server,
                   current_directory>>

\* the handlers that post no Browse
KeyHandled ==
    /\ MainThreadFree
    /\ \/ AppPrevious
       \/ AppNext
       \/ SelectTarget = <<>> /\ AppSelect
       \/ GoBackTarget = <<>> /\ AppGoBack

\* navigation in front of one server, the Browse call a step of its own
InitBrowse ==
    /\ InitNav
    /\ Len(servers) = 1

NextBrowse ==
    \/ SelectPosts
    \/ GoBackPosts
    \/ BrowseReturned
    \/ KeyHandled

SpecBrowse == InitBrowse /\ [][NextBrowse]_vars

\* a host without a local network to scan, and one media server that SSDP
\* finds and that serves a content directory
SessionNetwork ==
    /\ ssdpNet = [ok |-> TRUE,
                  stream |-> <<[url |-> <<21, DlnaPort, DescPath>>, plex |-> FALSE,
                                cd |-> TRUE]>>]
    /\ scanNet = [local |-> FALSE, out |-> [t \in TaskIds |-> "miss"]]
    /\ NoMgrNetwork
    /\ tree = (<<21, DlnaPort, DescPath>> :> SessionTree)

\* the worker on that host: targeted_port_scan_parallel spawns no task
SessionWorker(r) ==
    \/ WorkerStarted(r)
    \/ SsdpDiscover(r)
    \/ SsdpNextDevice(r)
    \/ SsdpEnd(r)
    \/ ScanStart(r)
    \/ CollectSsdp(r)
    \/ CollectScan(r)
    \/ Finish(r)

\* a whole session of the App: discovery and navigation
InitSession ==
    /\ SessionNetwork
    /\ Idle

NextSession ==
    \/ AppStartDiscovery
    \/ AppCheckDiscoveryUpdates
    \/ AppRefreshServers
    \/ \E r \in Runs : SessionWorker(r)
    \/ AppPrevious
    \/ AppNext
    \/ AppSelect
    \/ AppGoBack

SpecSession == InitSession /\ [][NextSession]_vars

\* one Browse POST: the response arrives and the client returns
BrowseAnswered ==
    /\ browse_result = <<>>
    /\ browse_result' = <<browse_upnp_content_directory_with_id(soap_response)>>
    /\ UNCHANGED <<netVars, probeVars, soap_response, in_flight, run, chan, dps, mgrVars, appVars>>

InitSoap ==
    /\ NoProbe
    /\ NoNetwork
    /\ NoMgrNetwork
    /\ run = [r \in Runs |-> NoRun]
    /\ chan = [r \in Runs |-> NoChan]
    /\ dps = DpsIdle
    /\ mgr = MgrNone
    /\ dud = DpsIdle
    /\ AppNew
    /\ soap_response \in Responses
    /\ browse_result = <<>>
    /\ in_flight = <<>>

NextSoap == BrowseAnswered

SpecSoap == InitSoap /\ [][NextSoap]_vars

\* one Multicast Probe on a socket
InitSsdp ==
    /\ NoNetwork
    /\ NoMgrNetwork
    /\ NoSoap
    /\ run = [r \in Runs |-> NoRun]
    /\ chan = [r \in Runs |-> NoChan]
    /\ dps = DpsIdle
    /\ mgr = MgrNone
    /\ dud = DpsIdle
    /\ AppNew
    /\ sock \in Sockets
    /\ probe = ProbeIdle
    /\ NoDescriptor
    /\ NoScan

NextSsdp ==
    \/ SsdpNew
    \/ SsdpSend
    \/ SsdpReceive
    \/ SsdpWindowEnds

\* one discovery run on a network whose scan tasks may panic
InitScan ==
    /\ NoTree
    /\ ssdpNet \in [ok : BOOLEAN, stream : SeqsUpTo(SsdpAnswers, MaxSsdp)]
    /\ ~ssdpNet.ok => ssdpNet.stream = <<>>
    /\ scanNet \in [local : {TRUE}, out : [TaskIds -> {"miss", "hit", "hitcd", "panic"}]]
    /\ \A t \in TaskIds : scanNet.out[t] \in Outcomes(t) \cup {"panic"}
    /\ NoMgrNetwork
    /\ Idle

NextScan ==
    \/ DpsCall
    \/ DpsRecv
    \/ DpsTimeout
    \/ Worker(1)

SpecScan == InitScan /\ [][NextScan]_vars

SpecSsdp == InitSsdp /\ [][NextSsdp]_vars

\* the listen loop of one Multicast Probe, run against the clock; the thread
\* that runs discover_devices keeps running and every recv_from returns
InitListen ==
    /\ NoNetwork
    /\ NoMgrNetwork
    /\ NoSoap
    /\ run = [r \in Runs |-> NoRun]
    /\ chan = [r \in Runs |-> NoChan]
    /\ dps = DpsIdle
    /\ mgr = MgrNone
    /\ dud = DpsIdle
    /\ AppNew
    /\ sock = NoSocket
    /\ probe = Listening
    /\ NoDescriptor
    /\ NoScan

NextListen ==
    \/ ListenReceive
    \/ ListenExit

SpecListen == InitListen /\ [][NextListen]_vars /\ WF_vars(NextListen)

\* everything but the Descriptor Resolver and the endpoint probe at rest
Rest ==
    /\ NoNetwork
    /\ NoMgrNetwork
    /\ NoSoap
    /\ sock = NoSocket
    /\ probe = ProbeIdle
    /\ run = [r \in Runs |-> NoRun]
    /\ chan = [r \in Runs |-> NoChan]
    /\ dps = DpsIdle
    /\ mgr = MgrNone
    /\ dud = DpsIdle
    /\ AppNew

\* parse_content_directory_url on one description
InitDescriptor ==
    /\ Rest
    /\ NoScan
    /\ description \in Descriptions
    /\ content_dir_url = <<>>

NextDescriptor == ResolveDescriptor

SpecDescriptor == InitDescriptor /\ [][NextDescriptor]_vars

\* scan_single_endpoint on one endpoint
InitProbe ==
    /\ Rest
    /\ NoDescriptor
    /\ endpoint \in ScannedEndpoints
    /\ scanned = <<>>

NextProbe == ProbeEndpoint

SpecProbe == InitProbe /\ [][NextProbe]_vars

-----------------------------------------------------------------------------
(* Properties of a discovery run *)

Positions(log, type) == {i \in 1..Len(log) : log[i].type = type}

Emitted(log, type) == Positions(log, type) # {}

EndsWithAllComplete(log) == log # <<>> /\ log[Len(log)].type = "AllComplete"

AllCompleteOnceAndLast(log, ended) ==
    /\ Cardinality(Positions(log, "AllComplete")) <= 1
    /\ \A i \in Positions(log, "AllComplete") : i = Len(log)
    /\ ended => EndsWithAllComplete(log)

UpnpRunning == run[1].pc \notin {"none", "done"}
UpnpEnded == run[1].pc = "done"
MgrRunning == mgr.pc \notin {"none", "done"}
MgrEnded == mgr.pc = "done"

\* C1: every discovery run (of upnp::start_discovery and of the
\* DiscoveryManager) sends AllComplete at most once, sends nothing after it,
\* has sent it when its thread ends, and can always take its next step until
\* then, whatever the probes return.
C1_AllCompleteOnceAndLast ==
    /\ AllCompleteOnceAndLast(run[1].log, UpnpEnded)
    /\ AllCompleteOnceAndLast(mgr.log, MgrEnded)
    /\ UpnpRunning => ENABLED Worker(1)
    /\ MgrRunning => ENABLED Manager

\* a run that ended although SSDP failed and the scan found nothing
C1_Witness ==
    /\ UpnpEnded /\ ~ssdpNet.ok /\ run[1].devices = <<>>
    /\ EndsWithAllComplete(run[1].log)

AllCompleteLists(log) == {log[i].devices : i \in Positions(log, "AllComplete")}

\* C2: the device list of AllComplete holds no two devices with the same
\* location, for every pair of probe results.
C2_AllCompleteNoDuplicateLocation ==
    \A ds \in AllCompleteLists(run[1].log) : NoDupLocation(ds)

Outstanding == {r \in Runs : run[r].pc \notin {"none", "done"}}

\* C3: at most one discovery worker that has not yet sent AllComplete exists,
\* after any sequence of start_discovery, refresh_servers and
\* check_discovery_updates.
C3_AtMostOneOutstandingRun == Cardinality(Outstanding) <= 1

\* C4: a run whose SSDP probe failed has reported the failure as an Error
\* event, still ran the port scan, took no device from SSDP and ended with
\* AllComplete.
C4_ProbeFailureReported ==
    /\ UpnpEnded /\ ~ssdpNet.ok =>
          /\ Emitted(run[1].log, "Error")
          /\ run[1].scan = "done"
          /\ run[1].ssdpDevs = <<>>
          /\ EndsWithAllComplete(run[1].log)
    /\ MgrEnded /\ mgrNet.perm = "Granted" /\ mgrNet.ssdp.err # None =>
          /\ Emitted(mgr.log, "Error")
          /\ Emitted(mgr.log, "PortScanComplete")
          /\ mgr.ssdpDevs = <<>>
          /\ EndsWithAllComplete(mgr.log)

Previewed(log) ==
    \A i \in Positions(log, "AllComplete") :
        \A d \in Range(log[i].devices) :
            \E j \in 1..(i - 1) : log[j] .type = "DeviceFound" /\ log[j].devices = <<d>>

\* C5: every device of the AllComplete list was sent earlier in the run as a
\* DeviceFound event, for SSDP devices and for scanned devices.
C5_AllCompletePreviewed ==
    /\ Previewed(run[1].log)
    /\ Previewed(mgr.log)

PhaseTypes == {"Phase1Complete", "Phase2Complete", "Phase3Complete"}

\* C6: AllComplete is sent only once both probes have returned (every scan
\* task resolved, the SSDP stream ended), Started is the first event, and
\* the three phase events all precede AllComplete.
C6_AllCompleteAfterJoin ==
    LET log == run[1].log
    IN  /\ log # <<>> => log[1].type = "Started"
        /\ \A i \in Positions(log, "AllComplete") :
              /\ run[1].ssdp = "done" /\ run[1].scan = "done"
              /\ scanNet.local => \A t \in TaskIds : run[1].tasks[t] = "resolved"
              /\ ssdpNet.ok => run[1].sidx = Len(ssdpNet.stream)
              /\ \A ty \in PhaseTypes : \E j \in Positions(log, ty) : j < i

\* AllComplete after both probes found devices
C6_Witness ==
    /\ Emitted(run[1].log, "AllComplete")
    /\ run[1].ssdpDevs # <<>> /\ run[1].scanDevs # <<>>

\* C7: when one probe has returned and the other returns only later, some
\* phase-complete event has been sent by the time the second one returns
\* (the first probe's phase event did not wait for the other probe).
C7_PhaseCompleteAsProbeCompletes ==
    [][ /\ (run[1].scan = "done" /\ run[1].ssdp # "done" /\ run'[1].ssdp = "done")
            => \E ty \in PhaseTypes : Emitted(run[1].log, ty)
        /\ (run[1].ssdp = "done" /\ run[1].scan # "done" /\ run'[1].scan = "done")
            => \E ty \in PhaseTypes : Emitted(run[1].log, ty) ]_vars

DeniedRunEnded == MgrEnded /\ mgrNet.perm = "Denied"

\* C8 as stated: after a Denied permission query the run has sent an Error
\* event about the permission, has scanned, and ended with AllComplete.
C8_DeniedReportedAsError ==
    DeniedRunEnded =>
        /\ \E i \in Positions(mgr.log, "Error") : mgr.log[i].info = "permission denied"
        /\ Emitted(mgr.log, "PortScanComplete")
        /\ EndsWithAllComplete(mgr.log)

\* C8 amended: after a Denied permission query the run has sent a
\* PermissionDenied event carrying the message (and no Error event about the
\* permission), skipped SSDP, scanned the ports, and ended with an
\* AllComplete that holds exactly the scanned devices.
C8_DeniedReportedAsPermissionDenied ==
    DeniedRunEnded =>
        /\ \E i \in Positions(mgr.log, "PermissionDenied") : mgr.log[i].info = "permission denied"
        /\ \A i \in Positions(mgr.log, "Error") : mgr.log[i].info = "enumeration failed"
        /\ mgr.ssdpDevs = <<>>
        /\ Emitted(mgr.log, "PortScanStarted") /\ Emitted(mgr.log, "PortScanComplete")
        /\ EndsWithAllComplete(mgr.log)
        /\ mgr.log[Len(mgr.log)].devices = ConvertAll(discover_via_port_scan(1))

\* a Denied run that ended with a scanned device
C8_Witness ==
    /\ DeniedRunEnded
    /\ mgr.log[Len(mgr.log)].devices # <<>>

\* the devices of the network, as discover_with_rupnp merges them
NetworkDevices ==
    MergeScanDevices(
        IF scanNet.local THEN ScanHits(1, <<>>) ELSE <<>>,
        MergeSsdpDevices([i \in 1..Len(ssdpNet.stream) |-> SsdpDevice(ssdpNet.stream[i])], <<>>),
        <<>>)[1]

\* C9: whatever the consumer does (reads, does not read, has dropped the
\* receiver), the worker can always take its next step, and the list it
\* sends with AllComplete is the merge of what the probes returned.
C9_NeverBlocksOnConsumer ==
    /\ UpnpRunning => ENABLED Worker(1)
    /\ UpnpEnded =>
          /\ EndsWithAllComplete(run[1].log)
          /\ run[1].log[Len(run[1].log)].devices = NetworkDevices

\* the run ended with devices although the caller gave up before reading any
C9_Witness ==
    /\ UpnpEnded /\ run[1].devices # <<>>
    /\ dps.pc = "returned" /\ dps.errors = <<"Discovery timed out">>
    /\ ~chan[1].alive

\* C10: in every state of the App the Path Index binds the empty path to
\* "0", the empty path resolves to "0", and no step changes that binding.
C10_RootBinding ==
    /\ <<>> \in DOMAIN container_id_map
    /\ container_id_map[<<>>] = RootId
    /\ ResolveContainerId(container_id_map, <<>>) = RootId

\* the root listing has been browsed and its containers are bound
C10_Witness ==
    /\ state = "DirectoryBrowser" /\ current_directory = <<>>
    /\ <<"A">> \in DOMAIN container_id_map
    /\ container_id_map[<<>>] = RootId

-----------------------------------------------------------------------------
(* Properties of the Content Directory Client and the DIDL-Lite parser *)

Answered == browse_result # <<>>

SuccessStatus == soap_response.status \in 200..299

BodyRead == soap_response.body # <<>>

FaultInBody ==
    /\ BodyRead
    /\ \E m \in FaultMarkers : Contains(soap_response.body[1], m)

FaultError == "UPnP SOAP fault in response"

StatusError == "UPnP SOAP request failed with status"

\* C15 as stated: a body with a fault marker makes the client fail with the
\* SOAP-fault error, whatever the HTTP status.
C15_FaultErrorForEveryStatus ==
    Answered /\ FaultInBody =>
        ~browse_result[1].ok /\ browse_result[1].error = FaultError

\* C15 amended: a body with a fault marker makes the client fail; the error
\* is the SOAP-fault error when the status is 2xx and the status error otherwise.
C15_FaultErrorOnSuccessStatus ==
    Answered /\ FaultInBody =>
        /\ ~browse_result[1].ok
        /\ SuccessStatus => browse_result[1].error = FaultError
        /\ ~SuccessStatus => browse_result[1].error = StatusError

C15_Witness ==
    /\ Answered /\ FaultInBody /\ soap_response.status = 200
    /\ browse_result[1].error = FaultError

\* C16: a non-2xx response gives an error that carries the status code, with
\* no entries and no container mappings.
C16_StatusErrorCarriesCode ==
    Answered /\ ~SuccessStatus =>
        /\ ~browse_result[1].ok
        /\ browse_result[1].error = StatusError
        /\ browse_result[1].status = <<soap_response.status>>
        /\ browse_result[1].value = <<>>

\* a 404 whose body holds a complete Result has been answered
C16_Witness ==
    /\ Answered /\ soap_response.status = 404 /\ BodyRead
    /\ soap_response.body[1] = BrowseResponse(ResultElement(DidlLite(SampleDocument)))
    /\ browse_result[1].status = <<404>>

NoSyntaxError(events) ==
    \A i \in 1..Len(events) :
        /\ events[i].ev # "Err"
        /\ \A j \in 1..Len(events[i].didl) : events[i].didl[j].ev # "Err"

ResultElements(events) ==
    {i \in 1..Len(events) : events[i].name = "Result" /\ events[i].ev \in {"Start", "Empty"}}

\* the document that the text of the (first) Result element unescapes to
ResultDocument(events) ==
    LET i == CHOOSE k \in ResultElements(events) : \A l \in ResultElements(events) : k <= l
    IN  IF events[i].ev = "Start" /\ events[i + 1].ev = "Text" /\ ~events[i + 1].bad
        THEN events[i + 1].didl ELSE <<>>

\* C18: a 2xx, fault-free, well-formed response with a Result element makes
\* Browse succeed with the entries of the document its text unescapes to (none
\* for a document without entries); without a Result element Browse fails.
C18_ResultUnwrapped ==
    Answered /\ SuccessStatus /\ BodyRead /\ ~FaultInBody
             /\ NoSyntaxError(soap_response.body[1]) =>
        IF ResultElements(soap_response.body[1]) # {}
        THEN /\ browse_result[1].ok
             /\ browse_result[1].value[1]
                   = ParseLoop(ResultDocument(soap_response.body[1]), ParserStart).value[1]
        ELSE ~browse_result[1].ok

\* the elements of the document a 200 response wraps, when it is one of DidlDocuments
WrappedDocuments ==
    {d \in DidlDocuments :
        /\ soap_response.status = 200
        /\ soap_response.body = <<BrowseResponse(ResultElement(DidlLite(d)))>>}

\* the size the claim gives an item: the integer its res size attribute
\* reads as, absent when the attribute is missing or not an integer
ClaimedSize(r) == IF r.size = <<Size123>> THEN <<123>> ELSE <<>>

\* C19: for a well-formed document the parser returns one entry per container
\* and item element, in document order, is_container set for containers
\* only, and for an item with a res element the size its size attribute
\* reads as and its raw duration.
C19_OneEntryPerElement ==
    Answered =>
        \A d \in WrappedDocuments :
            /\ browse_result[1].ok
            /\ LET items == browse_result[1].value[1]
               IN  /\ Len(items) = Len(d)
                   /\ \A i \in 1..Len(d) :
                         /\ items[i].id = d[i].id
                         /\ items[i].is_container = (d[i].kind = "container")
                         /\ d[i].kind = "item" /\ Len(d[i].res) = 1 =>
                               /\ items[i].size = ClaimedSize(d[i].res[1])
                               /\ items[i].duration = d[i].res[1].duration

RECURSIVE TitledContainers(_)
TitledContainers(d) ==
    IF d = <<>> THEN <<>>
    ELSE (IF Head(d).kind = "container" /\ Head(d).title \notin {<<>>, <<"">>}
          THEN << <<Head(d).title[1], Head(d).id>> >> ELSE <<>>)
         \o TitledContainers(Tail(d))

\* C20: the pairs the parser returns are, in document order, the (title, id)
\* of the containers with a non-empty title, and nothing else.
C20_MappingsAreTitledContainers ==
    Answered =>
        \A d \in WrappedDocuments :
            /\ browse_result[1].ok
            /\ browse_result[1].value[2] = TitledContainers(d)

\* an item titled "B" followed by a container without a title has been parsed
C20_Witness ==
    /\ Answered
    /\ <<Element("item", "7", <<"B">>, <<>>, FALSE),
         Element("container", "3", <<>>, <<>>, FALSE)>> \in WrappedDocuments
    /\ browse_result[1].value[2] = <<>>

(***************************************************************************)
(* Path resolution and the Path Index                                      *)
(***************************************************************************)

\* the titles of the containers of the trees
Names == {"A", "B", ""}

\* every path a browse can be asked for, and one segment beyond
AllPaths == SeqsUpTo(Names, MaxDepth + 1)

ExactOrRoot(map, path) == IF path \in DOMAIN map THEN map[path] ELSE RootId

\* C11: for every reachable Path Index and every path, the container id the
\* browse resolves is the id bound to exactly that path when there is such a
\* binding, and the root id "0" otherwise, even when a proper prefix of the
\* path is bound
C11_ResolveExactOrRoot ==
    \A path \in AllPaths :
        ResolveContainerId(container_id_map, path) = ExactOrRoot(container_id_map, path)

\* a browse of an unbound path below a bound, non-root directory has succeeded
\* and stored the root's containers under that path
C11_Witness ==
    /\ state = "DirectoryBrowser"
    /\ Len(current_directory) = 2
    /\ current_directory \notin DOMAIN container_id_map
    /\ SubSeq(current_directory, 1, 1) \in DOMAIN container_id_map
    /\ container_id_map[SubSeq(current_directory, 1, 1)] # RootId
    /\ last_error = NoError
    /\ Append(current_directory, "A") \in DOMAIN container_id_map
    /\ container_id_map[Append(current_directory, "A")] \in {"1", "2"}

\* the containers a path denotes in a server's tree: those reached from the
\* root by following the titles of the path (several when titles repeat)
RECURSIVE Denoted(_, _)
Denoted(served, path) ==
    IF path = <<>> THEN {RootId}
    ELSE LET parents == Denoted(served, SubSeq(path, 1, Len(path) - 1)) \cap DOMAIN served
         IN  UNION { { served[q][j].id : j \in
                         { k \in 1..Len(served[q]) :
                             /\ served[q][k].is_container
                             /\ served[q][k].title = path[Len(path)] } } : q \in parents }

\* the tree of the server a browse step has just addressed
BrowsedTree == tree[servers[selected_server'[1] + 1].location]

\* the bindings a step adds to the Path Index or changes in it
AddedBindings ==
    { key \in DOMAIN container_id_map' :
        key \notin DOMAIN container_id_map \/ container_id_map'[key] # container_id_map[key] }

\* C12: every binding path + [title] -> id a browse adds names a container
\* that the server lists, under that title, as a direct child of a container
\* the path denotes in the server's tree
C12_BindingsAreChildren ==
    [][\A key \in AddedBindings :
          container_id_map'[key] \in Denoted(BrowsedTree, key)]_vars

\* a response with which a SOAP browse fails: a non-2xx status, a fault
\* marker, no Result element, or a syntax error
SoapFails(r) ==
    /\ r.body # <<>>
    /\ \/ r.status \notin 200..299
       \/ \E m \in FaultMarkers : Contains(r.body[1], m)
       \/ ResultElements(r.body[1]) = {}
       \/ ~NoSyntaxError(r.body[1])

\* a step of select or go_back that calls load_directory
BrowseStep ==
    \/ state = "ServerList" /\ state' = "DirectoryBrowser"
    \/ current_directory' # current_directory

\* the listing the server holds for the container a path resolves to
ResolvedListing(served, map, path) == served[ResolveContainerId(map, path)]

SoapFailure == "UPnP ContentDirectory failed"

\* C17: a browse whose SOAP call fails (status error, fault, missing Result
\* or malformed DIDL) reports an error that starts with the SOAP failure
\* message and leaves the Path Index as it was; and the next select or
\* go_back whose SOAP call succeeds shows, without error, the listing of the
\* container its path resolves to
C17_FailedBrowseFailsAlone ==
    [][ /\ BrowseStep /\ SoapFails(soap_response') =>
              /\ last_error' # NoError
              /\ Head(last_error') = SoapFailure
              /\ container_id_map' = container_id_map
        /\ BrowseStep /\ SoapFails(soap_response) /\ soap_response'.body # <<>>
                      /\ ~SoapFails(soap_response') =>
              LET listing == ResolvedListing(BrowsedTree, container_id_map,
                                             current_directory')
              IN  /\ last_error' = NoError
                  /\ Len(directory_contents') = Len(listing)
                  /\ \A i \in 1..Len(listing) :
                        /\ directory_contents'[i].name = listing[i].title
                        /\ directory_contents'[i].is_directory = listing[i].is_container
                  /\ selected_item' = IF listing = <<>> THEN <<>> ELSE <<0>> ]_vars

\* the root browse met a document that breaks off after its containers, and
\* none of them is bound
C17_Witness ==
    /\ state = "DirectoryBrowser" /\ current_directory = <<>>
    /\ soap_response.status = 200 /\ soap_response.body # <<>>
    /\ ~NoSyntaxError(soap_response.body[1])
    /\ \E i \in 1..Len(soap_response.body[1]) :
          /\ soap_response.body[1][i].ev = "Text"
          /\ \E j \in 1..Len(soap_response.body[1][i].didl) :
                /\ soap_response.body[1][i].didl[j].ev = "End"
                /\ soap_response.body[1][i].didl[j].name = "container"
    /\ last_error # NoError /\ Head(last_error) = SoapFailure
    /\ DOMAIN container_id_map = {<<>>}

\* C14: at most one Browse call is in flight, and while one is, the only step
\* of the App is its return: no select or go_back changes the view before the
\* call has returned, and the Path Index changes only when a call returns
C14_OneBrowseInFlight ==
    [][ /\ Len(in_flight') <= 1
        /\ in_flight # <<>> =>
              /\ in_flight' = <<>>
              /\ UNCHANGED <<state, current_directory, selected_server>>
        /\ container_id_map' # container_id_map =>
              in_flight # <<>> /\ in_flight' = <<>> ]_vars

\* a second navigation is in flight after the first one has bound its path
C14_Witness ==
    /\ in_flight = << <<"A">> >>
    /\ current_directory = <<"A">>
    /\ <<"A">> \in DOMAIN container_id_map

\* C13: no step of a session (select, go_back with any browse result,
\* check_discovery_updates, refresh_servers, the discovery workers) removes a
\* path from the Path Index
C13_KeysOnlyGrow ==
    [][DOMAIN container_id_map \subseteq DOMAIN container_id_map']_vars

\* the servers have been cleared by a refresh and the bound path is still there
C13_Witness ==
    /\ servers = <<>>
    /\ discovery_receiver = 2
    /\ <<"A">> \in DOMAIN container_id_map

(***************************************************************************)
(* Directory items                                                         *)
(***************************************************************************)

\* C21: every entry the App shows after a browse, from the SOAP path or from
\* the HTTP fallback, has no metadata when it is a directory; metadata is
\* present only on entries that are not directories
C21_DirectoriesHaveNoMetadata ==
    \A i \in 1..Len(directory_contents) :
        directory_contents[i].is_directory => directory_contents[i].metadata = None

\* a SOAP listing with a container and a file that carries metadata
C21_Witness ==
    /\ last_error = NoError
    /\ \E i, j \in 1..Len(directory_contents) :
          /\ directory_contents[i].is_directory
          /\ ~directory_contents[j].is_directory
          /\ directory_contents[j].metadata # None
-----------------------------------------------------------------------------
(* The Multicast Discovery Probe *)

\* the datagrams received so far that parse_ssdp_response turned into a device
Accepted ==
    {i \in 1..probe.received :
        /\ sock.events[i].kind = "Ok"
        /\ sock.events[i].response.utf8
        /\ parse_ssdp_response(sock.events[i].response) # <<>>}

LocationOf(i) == HeaderValue(sock.events[i].response.lines, "location", <<>>)[1]
UsnOf(i) == HeaderValue(sock.events[i].response.lines, "usn", <<>>)

\* C22: whatever the listen window received, the devices discover_devices
\* returns carry pairwise different locations, one device for each LOCATION
\* among the responses that were accepted
C22_OneDevicePerLocation ==
    (probe.result # <<>> /\ probe.result[1].ok) =>
        LET devices == probe.result[1].devices
        IN  /\ NoDupLocation(devices)
            /\ Locations(devices) = {LocationOf(i) : i \in Accepted}

\* two accepted responses with one LOCATION and different USNs, one device
C22_Witness ==
    /\ probe.result # <<>>
    /\ probe.result[1].ok
    /\ Len(probe.result[1].devices) = 1
    /\ \E i, j \in Accepted : LocationOf(i) = LocationOf(j) /\ UsnOf(i) # UsnOf(j)

\* the response is a 200 OK with a LOCATION header, in whatever case
HasLocationHeader(response) ==
    \E i \in 1..Len(response.lines) :
        response.lines[i].colon /\ response.lines[i].name \in {"LOCATION", "Location", "location"}

OkWithLocation(response) ==
    /\ response.status \in {"HTTP/1.1 200 OK", "HTTP/1.1 200 OKAY"}
    /\ HasLocationHeader(response)

\* C23: a received response becomes a device exactly when it begins with
\* HTTP/1.1 200 OK and has a LOCATION header, the header name in any case; any
\* other response leaves the collected devices as they were
C23_DeviceIffOkWithLocation ==
    [][(probe'.received = probe.received + 1
          /\ sock.events[probe'.received].kind = "Ok"
          /\ sock.events[probe'.received].response.utf8) =>
         LET response == sock.events[probe'.received].response
         IN  /\ (probe'.parsed # <<>>) = OkWithLocation(response)
             /\ ~OkWithLocation(response) => probe'.devices = probe.devices
             /\ OkWithLocation(response) =>
                   /\ probe'.parsed[1].location \in DOMAIN probe'.devices
                   /\ probe'.devices[probe'.parsed[1].location] = probe'.parsed[1]]_vars

\* a device from a response whose LOCATION header is not written in lower
\* case, after a response that gave none
C23_Witness ==
    /\ probe.received = 2
    /\ probe.parsed # <<>>
    /\ sock.events[1].kind = "Ok"
    /\ sock.events[1].response.utf8
    /\ ~OkWithLocation(sock.events[1].response)
    /\ DOMAIN probe.devices = {probe.parsed[1].location}
    /\ \A i \in 1..Len(sock.events[2].response.lines) :
          sock.events[2].response.lines[i].name # "location"

\* C24: NoDevicesFound is the result exactly when the listen window ended
\* with nothing collected; a read failure that is no read timeout ends the
\* listening, as a NetworkError while nothing is collected and else as the
\* success of the devices collected so far; a read timeout ends nothing
C24_EmptyWindowOrHardError ==
    /\ \A i \in 1..probe.received :
          sock.events[i].kind \in ReadFailures => i = probe.received /\ probe.exit = "recv"
    /\ probe.pc = "done" =>
          LET result == probe.result[1]
              collected == {probe.devices[k] : k \in DOMAIN probe.devices}
          IN  /\ (~result.ok /\ result.error = "NoDevicesFound")
                    = (probe.exit = "window" /\ collected = {})
              /\ probe.exit = "recv" =>
                    /\ sock.events[probe.received].kind \in ReadFailures
                    /\ IF collected = {}
                       THEN ~result.ok /\ result.error = "NetworkError"
                       ELSE /\ result.ok
                            /\ Range(result.devices) = collected
                            /\ Len(result.devices) = Cardinality(collected)

\* a device, then a read failure: the device is returned
C24_Witness ==
    /\ probe.pc = "done"
    /\ probe.exit = "recv"
    /\ sock.events[probe.received].kind \in ReadFailures
    /\ probe.result[1].ok
    /\ probe.result[1].devices # <<>>

\* the calls whose failure ends the probe
ReportedSteps == Range(NewSteps) \cup {RootSearch}

\* the socket call that failed with this kind of I/O error
Failed(step, kinds) == sock.io[step] \in kinds

ReportedAs(error) ==
    /\ probe.result # <<>>
    /\ ~probe.result[1].ok
    /\ probe.result[1].error = error

\* C25 as stated: once the probe has returned, a bind, socket-option, join or
\* send failure of kind PermissionDenied has been reported as
\* PermissionDenied and every other failure of these calls as NetworkError
C25_EverySendFailureReported ==
    probe.pc = "done" =>
        \A step \in SocketSteps :
            /\ Failed(step, {"PermissionDenied"}) => ReportedAs("PermissionDenied")
            /\ Failed(step, IoErrorKinds \ {"PermissionDenied"}) => ReportedAs("NetworkError")

\* C25, amended: the same of the bind, the socket options, the join and the
\* first search; a failure of the second search is dropped and the probe
\* listens; PermissionDenied is reported of no other failure
C25_PermissionDeniedByKind ==
    probe.pc = "done" =>
        /\ \A step \in ReportedSteps :
              /\ Failed(step, {"PermissionDenied"}) => ReportedAs("PermissionDenied")
              /\ Failed(step, IoErrorKinds \ {"PermissionDenied"}) => ReportedAs("NetworkError")
        /\ Failed(MediaSearch, IoErrorKinds) => probe.exit \in {"window", "recv"}
        /\ ReportedAs("PermissionDenied") =>
              \E step \in ReportedSteps : Failed(step, {"PermissionDenied"})

\* the multicast join refused for want of permission
C25_Witness ==
    /\ probe.pc = "done"
    /\ Failed("join_multicast_v4", {"PermissionDenied"})
    /\ ReportedAs("PermissionDenied")

-----------------------------------------------------------------------------
(* The Descriptor Resolver *)

\* the place of the end tag of the i-th service among the events
RECURSIVE ServiceEnd(_, _)
ServiceEnd(services, i) ==
    IF i = 0 THEN Len(DescriptionHead)
    ELSE ServiceEnd(services, i - 1) + Len(ServiceEvents(services[i]))

\* the services that stand whole before the syntax error, if there is one
WholeServices(d) ==
    {i \in 1..Len(d.services) : d.cut = <<>> \/ ServiceEnd(d.services, i) <= d.cut[1]}

IsContentDirectory(s) ==
    s.type # <<>> /\ s.type[1] = "urn:schemas-upnp-org:service:ContentDirectory:1"

HasControlUrl(s) == s.control # <<>> /\ s.control[1] # ""

Resolved == content_dir_url # <<>>

\* the control URL of service i as the resolver returns it
ControlUrlOf(d, i) == <<FullUrl(DescriptorBaseUrl(d.url), d.services[i].control[1])>>

First(S) == CHOOSE i \in S : \A j \in S : i <= j

\* C28 as stated: the result is the control URL of the first service whose
\* type contains ContentDirectory, and none when there is no such service or
\* the document does not parse
C28_FirstContentDirectoryOrNone ==
    Resolved =>
        LET d == description
            cds == {i \in 1..Len(d.services) : IsContentDirectory(d.services[i])}
        IN  IF d.cut # <<>> \/ cds = {} \/ ~HasControlUrl(d.services[First(cds)])
            THEN content_dir_url[1] = <<>>
            ELSE content_dir_url[1] = ControlUrlOf(d, First(cds))

\* C28, amended: the result is the control URL of the first service that
\* stands whole before any syntax error, has a type containing
\* ContentDirectory and a control URL that is not empty, and none when there
\* is no such service; type and control URL always come from one service
C28_FirstUsableContentDirectory ==
    Resolved =>
        LET d == description
            usable == {i \in WholeServices(d) :
                          IsContentDirectory(d.services[i]) /\ HasControlUrl(d.services[i])}
        IN  IF usable = {} THEN content_dir_url[1] = <<>>
            ELSE content_dir_url[1] = ControlUrlOf(d, First(usable))

\* the second service is the ContentDirectory, after one of another type
\* with a control URL of its own
C28_Witness ==
    /\ Resolved
    /\ Len(description.services) = 2
    /\ description.cut = <<>>
    /\ ~IsContentDirectory(description.services[1])
    /\ HasControlUrl(description.services[1])
    /\ IsContentDirectory(description.services[2])
    /\ HasControlUrl(description.services[2])
    /\ content_dir_url[1] = ControlUrlOf(description, 2)

\* C29: a relative control URL comes back as scheme://host:port of the
\* device URL followed by the control URL, the port the explicit one or the
\* default of the scheme, and nothing of the description's path; an absolute
\* control URL comes back unchanged
C29_ResolvedAgainstDevice ==
    (Resolved /\ content_dir_url[1] # <<>>) =>
        LET d == description
            usable == {i \in WholeServices(d) :
                          IsContentDirectory(d.services[i]) /\ HasControlUrl(d.services[i])}
            control == d.services[First(usable)].control[1]
            port == IF d.url.port # <<>> THEN d.url.port[1]
                    ELSE IF d.url.scheme = "https" THEN 443 ELSE 80
        IN  content_dir_url[1][1] =
                IF control \in {"http://192.168.1.21:32469/ContentDirectory/control"}
                THEN <<control>>
                ELSE <<d.url.scheme, d.url.host, port, control>>

-----------------------------------------------------------------------------
(* The endpoint probe *)

Scanned == scanned # <<>>

\* the host answered this path with this status
HostAnswered(path, statuses) == endpoint.answers[path].status \in statuses

\* C26 as stated: on every scanned port, an endpoint that answers a request
\* of the probe with 401 is registered as a device
C26_UnauthorizedRegistersOnEveryPort ==
    Scanned =>
        ((\E i \in 1..Len(scanned[1].requested) : HostAnswered(scanned[1].requested[i], {401}))
            => scanned[1].device # <<>>)

\* C26, amended: on the ports 32400, 8096 and 8920 an endpoint is registered
\* exactly when one of the probed paths answers with a success status or with
\* 401, and as the same device in both cases; on port 32469 an answer of 401
\* registers nothing
C26_UnauthorizedRegistersOnGenericPorts ==
    Scanned =>
        IF endpoint.port # 32469
        THEN /\ (scanned[1].device # <<>>)
                   = (\E p \in {"/", "/status", "/identity"} : HostAnswered(p, 200..299 \cup {401}))
             /\ scanned[1].device # <<>> =>
                   /\ scanned[1].device[1].location = Url("http", endpoint.ip, <<endpoint.port>>, "")
                   /\ scanned[1].device[1].base_url = scanned[1].device[1].location
        ELSE HostAnswered("/DeviceDescription.xml", {401}) => scanned[1].device = <<>>

\* a server on a generic port that answers nothing but 401 is registered
C26_Witness ==
    /\ Scanned
    /\ endpoint.port = 32400
    /\ \A p \in {"/", "/status", "/identity"} : HostAnswered(p, {401})
    /\ scanned[1].device # <<>>

\* the description the host serves on port 32469, at the URL it is fetched from
Fetched ==
    [services |-> endpoint.answers[DescPath].body[1].services,
     cut |-> endpoint.answers[DescPath].body[1].cut,
     url |-> Url("http", endpoint.ip, <<endpoint.port>>, "/DeviceDescription.xml")]

UsableServices(d) ==
    {i \in WholeServices(d) : IsContentDirectory(d.services[i]) /\ HasControlUrl(d.services[i])}

\* C30 as stated: on port 32469 only /DeviceDescription.xml is requested and
\* every device reported has a ContentDirectory control URL
C30_DlnaDevicesBrowsable ==
    (Scanned /\ endpoint.port = 32469) =>
        /\ scanned[1].requested = <<"/DeviceDescription.xml">>
        /\ scanned[1].device # <<>> => scanned[1].device[1].content_directory_url # <<>>

\* C30, amended: on port 32469 only /DeviceDescription.xml is requested; a
\* device is reported exactly when the description is served with a success
\* status, and its content_directory_url is the control URL resolved from the
\* description when that names a usable ContentDirectory service, none when
\* it does not
C30_DlnaDevicesCarryResolvedUrl ==
    (Scanned /\ endpoint.port = 32469) =>
        /\ scanned[1].requested = <<"/DeviceDescription.xml">>
        /\ (scanned[1].device # <<>>)
              = (HostAnswered(DescPath, 200..299) /\ endpoint.answers[DescPath].body # <<>>)
        /\ scanned[1].device # <<>> =>
              scanned[1].device[1].content_directory_url =
                 IF UsableServices(Fetched) = {} THEN <<>>
                 ELSE ControlUrlOf(Fetched, First(UsableServices(Fetched)))

\* a Plex DLNA endpoint reported with its control URL
C30_Witness ==
    /\ Scanned
    /\ endpoint.port = 32469
    /\ scanned[1].device # <<>>
    /\ scanned[1].device[1].content_directory_url
          = <<<<"http", endpoint.ip, 32469, "/ContentDirectory/control">>>>

-----------------------------------------------------------------------------
(* The parallel Port Scan *)

\* the location a hit of task t is reported under
HitLocation(t) ==
    <<Endpoints[t][1], Endpoints[t][2], IF Endpoints[t][2] = 32469 THEN DescPath ELSE "">>

\* the tasks whose probe found a server
HitTasks == {t \in TaskIds : scanNet.out[t] \in {"hit", "hitcd"}}

\* C27: the scan has returned only when every probe task has resolved,
\* whatever the order they resolved in; its list holds the hit of every task
\* that found a server exactly once, no two entries with one location and
\* base URL, and nothing for a task that found none or panicked
C27_ScanReturnsEveryHitOnce ==
    \A r \in Runs :
        (run[r].scan = "done" /\ scanNet.local) =>
            LET devices == run[r].scanDevs
            IN  /\ \A t \in TaskIds : run[r].tasks[t] = "resolved"
                /\ \A i, j \in 1..Len(devices) :
                      (devices[i].location = devices[j].location
                         /\ devices[i].base_url = devices[j].base_url) => i = j
                /\ Locations(devices) = {HitLocation(t) : t \in HitTasks}
                /\ Len(devices) = Cardinality(HitTasks)

\* a scan that returned the hit of one task while another had panicked
C27_Witness ==
    /\ run[1].scan = "done"
    /\ Len(run[1].scanDevs) = 1
    /\ \E t \in TaskIds : scanNet.out[t] = "panic"

-----------------------------------------------------------------------------
(* The App's server list *)

IsPrefix(s, t) == Len(s) <= Len(t) /\ SubSeq(t, 1, Len(s)) = s

FromSsdp(d) == d.device_client = "device_type"

\* in every AllComplete list of the log, an SSDP record stands ahead of the
\* port-scan records of its location
SsdpRecordsAhead(log) ==
    \A ds \in AllCompleteLists(log) :
        \A i, j \in 1..Len(ds) :
            (ds[i].location = ds[j].location /\ FromSsdp(ds[i]) /\ ~FromSsdp(ds[j])) => i < j

\* refresh_servers emptied the list
Refreshed == servers' = <<>> /\ discovery_errors' = <<>> /\ last_error' = NoError

\* C31: a location reported twice keeps its first record: in the AllComplete
\* list the SSDP record stands ahead of a port-scan record of the same
\* location, and no step of the App other than the clearing of
\* refresh_servers changes or moves a record App.servers holds
C31_FirstSeenKept ==
    [][/\ \A r \in Runs : SsdpRecordsAhead(run'[r].log)
       /\ IsPrefix(servers, servers') \/ Refreshed]_vars

\* the App holds the port-scan record of a location, stored from DeviceFound,
\* after it has consumed an AllComplete that lists the SSDP record first
C31_Witness ==
    /\ discovery_receiver = 0
    /\ \E r \in Runs : \E ds \in AllCompleteLists(run[r].log) :
          \E i, j \in 1..Len(ds) :
              /\ i < j
              /\ ds[i].location = ds[j].location
              /\ FromSsdp(ds[i]) /\ ~FromSsdp(ds[j])
              /\ \E k \in 1..Len(servers) : servers[k] = ds[j]

-----------------------------------------------------------------------------
(* The listen loop and the clock *)

\* the loop makes a bounded number of turns and, when it is left by its
\* condition, the window has elapsed and has not been overrun by more than
\* one read
WindowRespected ==
    /\ probe.received * Promptly <= ListenWindow
    /\ probe.exit = "window" =>
          /\ probe.elapsed >= ListenWindow
          /\ probe.elapsed < ListenWindow + ReadTimeout

\* C32: the listen loop of discover_devices terminates: with every recv_from
\* returning and the clock advancing, the loop is left, whatever arrives and
\* for however long, and when it is left by its condition the window has
\* just elapsed
C32_ListenLoopTerminates == <>(probe.pc = "done") /\ []WindowRespected

\* the loop was left by its condition after a window in which every read
\* returned a datagram
C32_Witness ==
    /\ probe.pc = "done"
    /\ probe.exit = "window"
    /\ ~probe.silent
    /\ DOMAIN probe.devices # {}
    /\ probe.received >= ListenWindow \div ReadTimeout

-----------------------------------------------------------------------------
(* The Path Index under browsing *)

\* the binding of a path in a Path Index, if it has one
Binding(map, path) == IF path \in DOMAIN map THEN <<map[path]>> ELSE <<>>

\* the path is P extended by exactly one segment
ExtendsByOne(path, P) ==
    Len(path) = Len(P) + 1 /\ SubSeq(path, 1, Len(P)) = P

\* C33: a step of the App changes the Path Index at no key other than the
\* path it browses (the new current_directory) extended by one segment, and
\* the container id that path resolves to is the same before and after
C33_BrowseBindsChildrenOnly ==
    [][/\ \A path \in DOMAIN container_id_map \cup DOMAIN container_id_map' :
             Binding(container_id_map, path) # Binding(container_id_map', path)
                => ExtendsByOne(path, current_directory')
       /\ ResolveContainerId(container_id_map', current_directory')
             = ResolveContainerId(container_id_map, current_directory')]_vars

\* a browse of a path below the root has stored the mapping of a child, the
\* path itself being bound
C33_Witness ==
    /\ state = "DirectoryBrowser"
    /\ current_directory # <<>>
    /\ current_directory \in DOMAIN container_id_map
    /\ \E path \in DOMAIN container_id_map : ExtendsByOne(path, current_directory)

\* the Browse calls the selected server can have answered, with their results
Answers ==
    UNION {BrowseResults[tree[servers[selected_server[1] + 1].location]][id] :
              id \in ContainerIds}

\* what the Browse behind the listing on screen returned
Shown == (CHOOSE met \in Answers : met.response = soap_response).result

\* the listing on screen is that of a successful SOAP browse
SoapListingShown ==
    /\ state = "DirectoryBrowser"
    /\ selected_server # <<>>
    /\ servers[selected_server[1] + 1].content_directory_url # None
    /\ \E met \in Answers : met.response = soap_response
    /\ Shown.ok
    /\ directory_contents = DirectoryItems(Shown.value[1])

\* the ObjectID of the Browse that App::select posts for the i-th entry
SelectBrowses(i) ==
    ResolveContainerId(container_id_map,
                       Append(current_directory, directory_contents[i].name))

\* C34: whenever the listing of a successful SOAP browse is shown, selecting
\* any container of it posts a Browse whose ObjectID is the id of that
\* container, whatever the titles of the listing are
C34_SelectBrowsesTheContainer ==
    SoapListingShown =>
        \A i \in 1..Len(directory_contents) :
            directory_contents[i].is_directory => SelectBrowses(i) = Shown.value[1][i].id

-----------------------------------------------------------------------------
(* The App's discovery flag *)

\* C35: whenever a discovery handler of the App has returned, is_discovering
\* is true exactly when a discovery receiver is held; the
\* check_discovery_updates that consumes AllComplete clears both, and the
\* start_discovery after it holds a receiver again
C35_DiscoveringIffReceiver ==
    [][/\ is_discovering' = (discovery_receiver' # 0)
       /\ (discovery_receiver # 0 /\ discovery_receiver' = 0) =>
             /\ EndsWithAllComplete(chan[discovery_receiver].q)
             /\ ~is_discovering'
       /\ (discovery_receiver = 0 /\ discovery_receiver' # 0) =>
             /\ is_discovering'
             /\ run[discovery_receiver'].pc = "none"
             /\ run'[discovery_receiver'].pc # "none"]_vars

\* the first run has been consumed to its AllComplete, its devices are kept,
\* and start_discovery has started the second
C35_Witness ==
    /\ discovery_receiver = 2
    /\ is_discovering
    /\ run[1].pc = "done"
    /\ run[2].pc = "spawned"
    /\ servers # <<>>

\* no location occurs twice in the list
DistinctLocations(list) ==
    \A i, j \in 1..Len(list) : list[i].location = list[j].location => i = j

\* C36: App.servers never holds two devices with the same location
C36_ServersDistinctByLocation == DistinctLocations(servers)

\* the App has consumed a run that announced one location in two DeviceFound
\* messages and listed it again in AllComplete, and holds two servers
C36_Witness ==
    /\ discovery_receiver = 0
    /\ Len(servers) >= 2
    /\ \E r \in Runs :
          /\ EndsWithAllComplete(run[r].log)
          /\ \E i, j \in Positions(run[r].log, "DeviceFound") :
                /\ i < j
                /\ run[r].log[i].devices[1].location = run[r].log[j].devices[1].location
                /\ run[r].log[i].devices[1].location
                      \in Locations(run[r].log[Len(run[r].log)].devices)
                /\ run[r].log[i].devices[1].location \in Locations(servers)

-----------------------------------------------------------------------------
(* The App's view: state, path and selections *)

\* C37: in the server list the navigation path is empty: go_back leaves the
\* browser only from the empty path, and entering a server starts at the
\* empty path
C37_ServerListAtEmptyPath ==
    /\ [](state = "ServerList" => current_directory = <<>>)
    /\ [][/\ (state = "DirectoryBrowser" /\ state' = "ServerList")
                => current_directory = <<>>
          /\ (state = "ServerList" /\ state' = "DirectoryBrowser")
                => current_directory' = <<>>]_vars

\* the App is back in the server list after a browse below the root
C37_Witness ==
    /\ state = "ServerList"
    /\ selected_server # <<>>
    /\ \E path \in DOMAIN container_id_map : Len(path) = 2

\* an Option<usize> that is None or an index into the list
ValidIndex(sel, list) == sel = <<>> \/ (sel[1] >= 0 /\ sel[1] < Len(list))

\* the selection has moved one entry down or up, past either end to the other
\* end, or from None to the first entry
Wrapped(sel, moved, n) ==
    moved \in IF sel = <<>> THEN { <<0>> }
              ELSE { <<(sel[1] + 1) % n>>, <<(sel[1] + n - 1) % n>> }

\* C38: selected_item is None or an index into directory_contents; after a
\* load_directory that ran a browse it is None when the listing is empty and
\* 0 otherwise; any other change of it is a step of next or previous that
\* wraps around within the listing
C38_SelectedItemValid ==
    /\ []ValidIndex(selected_item, directory_contents)
    /\ [][/\ BrowseStep =>
                selected_item' = IF directory_contents' = <<>> THEN <<>> ELSE <<0>>
          /\ (~BrowseStep /\ selected_item' # selected_item) =>
                /\ directory_contents' = directory_contents
                /\ Wrapped(selected_item, selected_item', Len(directory_contents))]_vars

\* the selection stands on the last of several entries, where next wraps
C38_Witness ==
    /\ state = "DirectoryBrowser"
    /\ Len(directory_contents) >= 2
    /\ selected_item = <<Len(directory_contents) - 1>>

\* C39: selected_server is None or an index into servers, in every state of a
\* session of navigation and discovery handlers
C39_SelectedServerValid == ValidIndex(selected_server, servers)

-----------------------------------------------------------------------------
(* Discovery runs side by side *)

Ended(r) == run[r].pc = "done"

\* the list a run that has ended sent with AllComplete
FinalList(r) == run[r].log[Len(run[r].log)].devices

\* C40: the AllComplete list is a function of what the probes return: any
\* two runs on the same network that have ended sent the same list, however
\* their probes and scan tasks were interleaved, and that list is the SSDP
\* devices in the order returned followed by the port-scan hits in task order
C40_ListIndependentOfSchedule ==
    \A r1, r2 \in Runs :
        (Ended(r1) /\ Ended(r2)) =>
            /\ EndsWithAllComplete(run[r1].log)
            /\ EndsWithAllComplete(run[r2].log)
            /\ FinalList(r1) = FinalList(r2)
            /\ FinalList(r1) = NetworkDevices

\* two runs have ended whose probes announced their devices in different
\* orders, and both listed an SSDP device and a port-scan hit
C40_Witness ==
    /\ Ended(1) /\ Ended(2)
    /\ \E i, j \in 1..Len(FinalList(1)) :
          FromSsdp(FinalList(1)[i]) /\ ~FromSsdp(FinalList(1)[j])
    /\ [i \in 1..Len(run[1].log) |-> run[1].log[i].devices]
          # [i \in 1..Len(run[2].log) |-> run[2].log[i].devices]

====
